---- MODULE Spec2Model ----
(***************************************************************************)
(* A model of the client runtime of react-express: the hooks state store   *)
(* (src/client/hooks.js), the batched virtual-DOM renderer                 *)
(* (src/client/vdom.js) and the hot-update pipeline (src/client/hmr.js).   *)
(*                                                                         *)
(* JavaScript values are tagged records, so that values of different       *)
(* JavaScript types can be compared: Str("a"), Num(1), Undefined, El(..),  *)
(* Raw(..).  DOM nodes are records as well: a text node, an element node   *)
(* with attributes, listeners and child nodes, or an opaque parsed         *)
(* fragment produced by an innerHTML assignment.                           *)
(***************************************************************************)
EXTENDS Integers, Sequences, FiniteSets, TLC

(***************************************************************************)
(* Bounds of the model.                                                    *)
(***************************************************************************)
MaxSets == 3
MaxRenders == 3
MaxBinds == 2

(***************************************************************************)
(* JavaScript values.                                                      *)
(***************************************************************************)
Undefined == [t |-> "undefined"]
Str(s) == [t |-> "str", s |-> s]
Num(n) == [t |-> "num", n |-> n]
El(type, props, children) ==
    [t |-> "el", type |-> type, props |-> props, children |-> children]

\* an array of strings
Arr(items) == [t |-> "arr", items |-> items]
Bool(b) == [t |-> "bool", b |-> b]

NoProps == [k \in {} |-> ""]
Null == [t |-> "null"]
\* an array of children passed as one argument
List(items) == [t |-> "list", items |-> items]

RECURSIVE Flat(_)
\* children.flat(): the items of an array among the arguments take its place
Flat(children) ==
    IF children = <<>> THEN <<>>
    ELSE (IF Head(children).t = "list" THEN Head(children).items
          ELSE <<Head(children)>>) \o Flat(Tail(children))

\* c !== null && c !== undefined && c !== false && c !== true
IsChild(c) == c.t \notin {"null", "undefined", "bool"}

\* a createElement that lets an entry of props win: { children: flat, ...props }
createElementPropsLast(type, props, children) ==
    [type |-> type,
     props |-> [k \in DOMAIN props \cup {"children"} |->
                  IF k \in DOMAIN props THEN props[k]
                  ELSE SelectSeq(Flat(children), IsChild)]]

\* createElement(type, props, ...children): { type, props: { ...props, children: flat } }
createElement(type, props, children) ==
    [type |-> type,
     props |-> [k \in DOMAIN props \cup {"children"} |->
                  IF k = "children" THEN SelectSeq(Flat(children), IsChild)
                  ELSE props[k]]]

\* vdom.raw(html): { __raw: String(html ?? '') }
raw(html) == [t |-> "raw", html |-> html]

\* _isRaw(vnode): an object that owns a __raw field
IsRaw(vnode) == vnode.t = "raw"

\* JavaScript truthiness of the values used here: undefined, "" and 0 are falsy
Falsy(v) == v = Undefined \/ v = Str("") \/ v = Num(0) \/ v = [t |-> "bool", b |-> FALSE]

\* typeof v
TypeOf(v) ==
    CASE v.t = "undefined" -> "undefined"
      [] v.t = "str" -> "string"
      [] v.t = "num" -> "number"
      [] v.t = "bool" -> "boolean"
      [] OTHER -> "object"

\* v.type, the property read by nodeChanged ("undefined" when there is none)
TypeProp(v) == IF v.t = "el" THEN v.type ELSE "undefined"

Digits == <<"0", "1", "2", "3", "4", "5", "6", "7", "8", "9">>

RECURSIVE NumToStr(_)
\* String(n) for a natural number
NumToStr(n) ==
    IF n < 10 THEN Digits[n + 1]
    ELSE NumToStr(n \div 10) \o Digits[(n % 10) + 1]

\* String(v) for a primitive value; undefined and null are replaced by '' by
\* the callers (displayValue ?? '')
ToText(v) ==
    CASE v.t = "str" -> v.s
      [] v.t = "num" -> NumToStr(v.n)
      [] OTHER -> ""

(***************************************************************************)
(* DOM nodes.                                                              *)
(***************************************************************************)
\* A node object is told from an equal one by born: the number of the _commit
\* call that created it, and NotBorn for the nodes of the delivered page and
\* for a node in the making.
NotBorn == 0
NoNode == [kind |-> "none"]
TextNode(data) == [kind |-> "text", data |-> data, born |-> NotBorn]
ElNode(tag, attrs, listeners, kids) ==
    [kind |-> "el", tag |-> tag, attrs |-> attrs, listeners |-> listeners,
     kids |-> kids, born |-> NotBorn]
\* the nodes an innerHTML assignment parses, kept opaque
HtmlNode(html) == [kind |-> "html", data |-> html, born |-> NotBorn]

RECURSIVE Stamped(_, _)
\* the child nodes kids, the nodes made by _commit call n marked as such
Stamped(kids, n) ==
    [i \in 1..Len(kids) |->
        LET k == kids[i]
            b == IF k.born = NotBorn THEN n ELSE k.born
        IN IF k.kind = "el"
           THEN [k EXCEPT !.born = b, !.kids = Stamped(k.kids, n)]
           ELSE [k EXCEPT !.born = b]]

KidsOf(p) == IF p.kind = "el" THEN p.kids ELSE <<>>

\* p.childNodes[index], index counted from 0
ChildAt(p, index) ==
    IF index + 1 <= Len(KidsOf(p)) THEN KidsOf(p)[index + 1] ELSE NoNode

RemoveAt(s, i) == SubSeq(s, 1, i - 1) \o SubSeq(s, i + 1, Len(s))
ReplaceAt(s, i, x) == [s EXCEPT ![i] = x]

RECURSIVE TextOfKids(_)
\* node.textContent of a list of child nodes
TextOfKids(kids) ==
    IF kids = <<>> THEN ""
    ELSE LET h == Head(kids)
             own == CASE h.kind = "text" -> h.data
                      [] h.kind = "html" -> h.data
                      [] h.kind = "el" -> TextOfKids(h.kids)
                      [] OTHER -> ""
         IN own \o TextOfKids(Tail(kids))

\* element.innerHTML = html
ParseHTML(html) == IF html = "" THEN <<>> ELSE <<HtmlNode(html)>>

(***************************************************************************)
(* VirtualDOM (src/client/vdom.js, the batching renderer).                 *)
(***************************************************************************)
\* tag names document.createElement rejects (InvalidCharacterError)
InvalidTags == {""}

EventProps == {"onclick", "onClick"}
\* name.startsWith("on")
IsEventProp(name) == name \in EventProps
\* name.toLowerCase().slice(2)
EventName(name) == IF name \in {"onclick", "onClick"} THEN "click" ELSE name
\* className maps to the class attribute
AttrName(name) == IF name = "className" THEN "class" ELSE name

\* the attributes and listeners createDOMElement sets from props
PropsAttrs(props) ==
    LET names == {AttrName(k) : k \in {p \in DOMAIN props : ~IsEventProp(p)}}
    IN [a \in names |->
          props[CHOOSE k \in DOMAIN props : ~IsEventProp(k) /\ AttrName(k) = a]]
PropsListeners(props) ==
    {<<EventName(k), props[k]>> : k \in {p \in DOMAIN props : IsEventProp(p)}}

RECURSIVE createDOMElement(_)
\* createDOMElement(vnode): [ok |-> FALSE] when it throws
createDOMElement(vnode) ==
    CASE vnode.t = "str" -> [ok |-> TRUE, node |-> TextNode(vnode.s)]
      [] vnode.t = "num" -> [ok |-> TRUE, node |-> TextNode(NumToStr(vnode.n))]
      [] vnode.t = "el" ->
           IF vnode.type \in InvalidTags THEN [ok |-> FALSE, node |-> NoNode]
           ELSE LET made == [i \in 1..Len(vnode.children) |->
                               createDOMElement(vnode.children[i])]
                IN IF \E i \in 1..Len(vnode.children) : ~made[i].ok
                   THEN [ok |-> FALSE, node |-> NoNode]
                   ELSE [ok |-> TRUE,
                         node |-> ElNode(vnode.type, PropsAttrs(vnode.props),
                                         PropsListeners(vnode.props),
                                         [i \in 1..Len(vnode.children) |->
                                            made[i].node])]
      [] OTHER -> [ok |-> FALSE, node |-> NoNode]

\* nodeChanged(node1, node2)
nodeChanged(node1, node2) ==
    \/ TypeOf(node1) # TypeOf(node2)
    \/ (TypeOf(node1) = "string" /\ node1 # node2)
    \/ TypeProp(node1) # TypeProp(node2)

\* the keys the two loops of updateProps act on
RemovedProps(oldProps, newProps) == DOMAIN oldProps \ DOMAIN newProps
ChangedProps(oldProps, newProps) ==
    {k \in DOMAIN newProps : k \notin DOMAIN oldProps \/ oldProps[k] # newProps[k]}

\* updateProps(element, oldProps, newProps): [ok, node]
updateProps(element, oldProps, newProps) ==
    LET gone == RemovedProps(oldProps, newProps)
        changed == ChangedProps(oldProps, newProps)
    IN IF gone \cup changed = {} THEN [ok |-> TRUE, node |-> element]
       ELSE IF element.kind # "el" THEN [ok |-> FALSE, node |-> element]
       ELSE LET goneAttrs == {AttrName(k) : k \in {p \in gone : ~IsEventProp(p)}}
                setKeys == {p \in changed : ~IsEventProp(p)}
                setAttrs == {AttrName(k) : k \in setKeys}
                names == (DOMAIN element.attrs \ goneAttrs) \cup setAttrs
                attrs == [a \in names |->
                            IF a \in setAttrs
                            THEN newProps[CHOOSE k \in setKeys : AttrName(k) = a]
                            ELSE element.attrs[a]]
                dropped == {<<EventName(k), oldProps[k]>> :
                              k \in {p \in (gone \cup changed) :
                                       IsEventProp(p) /\ p \in DOMAIN oldProps}}
                added == {<<EventName(k), newProps[k]>> :
                            k \in {p \in changed : IsEventProp(p)}}
            IN [ok |-> TRUE,
                node |-> [element EXCEPT !.attrs = attrs,
                             !.listeners = (element.listeners \ dropped) \cup added]]

ChildVNodes(v) == IF v.t = "el" THEN v.children ELSE <<>>
VNodeAt(children, i) == IF i + 1 <= Len(children) THEN children[i + 1] ELSE Undefined
Max(a, b) == IF a >= b THEN a ELSE b

\* the parent after a DOM call of diff: appendChild, removeChild, replaceChild
Appended(parent, made) ==
    IF made.ok /\ parent.kind = "el"
    THEN [ok |-> TRUE, parent |-> [parent EXCEPT !.kids = Append(@, made.node)]]
    ELSE [ok |-> FALSE, parent |-> parent]
Removed(parent, index) ==
    IF ChildAt(parent, index) = NoNode
    THEN [ok |-> FALSE, parent |-> parent]
    ELSE [ok |-> TRUE, parent |-> [parent EXCEPT !.kids = RemoveAt(@, index + 1)]]
Replaced(parent, index, made) ==
    IF made.ok /\ ChildAt(parent, index) # NoNode
    THEN [ok |-> TRUE,
          parent |-> [parent EXCEPT !.kids = ReplaceAt(@, index + 1, made.node)]]
    ELSE [ok |-> FALSE, parent |-> parent]

\* the parent once the node at index has been patched: the node is patched in
\* place, so the parent holds whatever the patch did before it threw
Patched(parent, index, done) ==
    IF ChildAt(parent, index) = NoNode
    THEN [ok |-> done.ok, parent |-> parent]
    ELSE [ok |-> done.ok,
          parent |-> [parent EXCEPT !.kids = ReplaceAt(@, index + 1, done.parent)]]

RECURSIVE diff(_, _, _, _), diffChildren(_, _, _, _, _), diffNext(_, _, _, _, _)
\* diff(oldNode, newNode, parent, index): [ok, parent], the parent node after
\* the mutations made so far; ok is FALSE when a DOM call throws
diff(oldNode, newNode, parent, index) ==
    IF Falsy(oldNode) THEN Appended(parent, createDOMElement(newNode))
    ELSE IF Falsy(newNode) THEN Removed(parent, index)
    ELSE IF nodeChanged(oldNode, newNode)
    THEN Replaced(parent, index, createDOMElement(newNode))
    ELSE LET hasProps == oldNode.t = "el" /\ newNode.t = "el"
             maxLength == Max(Len(ChildVNodes(oldNode)), Len(ChildVNodes(newNode)))
             patched == IF hasProps
                        THEN updateProps(ChildAt(parent, index), oldNode.props,
                                         newNode.props)
                        ELSE [ok |-> TRUE, node |-> ChildAt(parent, index)]
         IN IF parent.kind = "none" /\ (hasProps \/ maxLength > 0)
            THEN [ok |-> FALSE, parent |-> parent]
            ELSE IF ~patched.ok
            THEN Patched(parent, index, [ok |-> FALSE, parent |-> patched.node])
            ELSE Patched(parent, index,
                         diffChildren(ChildVNodes(oldNode), ChildVNodes(newNode),
                                      patched.node, 0, maxLength))

\* the loop "for (let i = 0; i < maxLength; i++) this.diff(old[i], new[i], node, i)"
diffChildren(oldChildren, newChildren, node, i, maxLength) ==
    IF i >= maxLength THEN [ok |-> TRUE, parent |-> node]
    ELSE diffNext(oldChildren, newChildren,
                  diff(VNodeAt(oldChildren, i), VNodeAt(newChildren, i), node, i),
                  i, maxLength)

\* the next round of the loop, unless the round before threw
diffNext(oldChildren, newChildren, step, i, maxLength) ==
    IF step.ok
    THEN diffChildren(oldChildren, newChildren, step.parent, i + 1, maxLength)
    ELSE step

(***************************************************************************)
(* The page.  An element is identified by the generation of the document   *)
(* content it was parsed from and its slot in the markup.                  *)
(***************************************************************************)
Elem(slot) == [gen |-> 0, slot |-> slot]

\* the markup of the page: tag, data-react-state key and type of each slot
Tag(tag, key, type, value, late) ==
    [tag |-> tag, key |-> key, type |-> type, value |-> value, late |-> late]

\* the markup of the page: tag, data-react-state key, type and value attribute
\* of each slot; a late slot is markup that is not in the document as served
\* and is inserted into it afterwards (by the router or a hot update)
Markup ==
    [app   |-> Tag("DIV",   "",      "",         "",  FALSE),
     side  |-> Tag("DIV",   "",      "",         "",  FALSE),
     out   |-> Tag("DIV",   "count", "",         "",  FALSE),
     field |-> Tag("INPUT", "count", "text",     "",  FALSE),
     label |-> Tag("SPAN",  "name",  "",         "",  FALSE),
     cbA   |-> Tag("INPUT", "tags",  "checkbox", "a", FALSE),
     cbB   |-> Tag("INPUT", "tags",  "checkbox", "b", FALSE),
     cbC   |-> Tag("INPUT", "tags",  "checkbox", "c", TRUE),
     rA    |-> Tag("INPUT", "pick",  "radio",    "a", FALSE),
     rB    |-> Tag("INPUT", "pick",  "radio",    "b", FALSE),
     fixed |-> Tag("DIV",   "price", "",         "",  FALSE),
     shown |-> Tag("DIV",   "price", "",         "",  FALSE),
     plain |-> Tag("SPAN",  "price", "",         "",  FALSE),
     typed |-> Tag("INPUT", "price", "text",     "",  FALSE)]

\* the inline expression of a data-format attribute that throws for a value
\* that is not a number, and one that is not an expression
ToFixed == "js:value.toFixed(2)"
NotAnExpression == "js:("
\* the data-format attribute of the slots that have one
Formats ==
    [fixed |-> ToFixed, shown |-> "json", plain |-> "doesNotExist",
     typed |-> NotAnExpression]

Slots == DOMAIN Markup
\* document order of the slots
DocOrder == <<"app", "side", "out", "field", "label", "cbA", "cbB", "cbC",
              "rA", "rB",
              "fixed", "shown", "plain", "typed">>
Keys == {"count", "name"}
\* the key of the checkbox group
GroupKey == "tags"
\* the key of the elements with a data-format attribute
FormatKey == "price"
\* the key of the radio buttons, which share one name attribute
RadioKey == "pick"
AllKeys == Keys \cup {GroupKey, RadioKey, FormatKey}

TagOf(e) == Markup[e.slot].tag
KeyOf(e) == Markup[e.slot].key
TypeOfInput(e) == Markup[e.slot].type
\* element.value of a checkbox: its value attribute
ValueAttr(e) == Markup[e.slot].value
IsCheckbox(e) == TagOf(e) = "INPUT" /\ TypeOfInput(e) = "checkbox"
IsRadio(e) == TagOf(e) = "INPUT" /\ TypeOfInput(e) = "radio"
\* element.getAttribute('data-format') || element.getAttribute('data-type')
FormatAttr(e) == IF e.slot \in DOMAIN Formats THEN Formats[e.slot] ELSE ""
IsFormControl(e) == TagOf(e) \in {"INPUT", "SELECT", "TEXTAREA"}

\* the text the server rendered into every element
SSRText == "ssr"

VARIABLES
    stateBindings,  \* ComponentManager.stateBindings: key -> Binding or NoBinding
    busListeners,   \* ComponentManager.eventBus: key -> listeners in order of registration
    received,       \* per subscriber, the (value, previous) pairs its handler was called with
    inputListeners, \* per element, the number of input/change listeners attached
    elValue,        \* per form control, element.value
    elChecked,      \* per form control, element.checked
    inserted,       \* the late elements that are in the document by now
    observing,      \* whether window.ReactExpress.__stateObserver is set
    mutations,      \* the elements added since the observer's callback last ran
    effect,         \* the effect registered by useEffect: its handler and its runs
    nToggles, nInits, \* the user's clicks and the initializeState calls so far
    bindLog,        \* the bindState calls of the page's scripts so far
    memoizedValues, \* ComponentManager.memoizedValues and the listeners useMemo added
    console,        \* the console.error calls so far
    store,          \* the Store made by createStore, and its calls so far
    socket,         \* the client's socket: the messages received and emitted so far
    server,         \* the file watcher of the server plugin and its broadcasts
    vnodes,         \* the calls of createElement so far, each with its arguments and result
    errorOverlay,   \* the ErrorOverlayUI object: its errors queue, index and visibility
    queue,          \* VirtualDOM.queue: Map container -> latest vnode, in insertion order
    scheduled,      \* VirtualDOM.scheduled
    microtasks,     \* the number of queued "() => this._flush()" microtasks
    trees,          \* VirtualDOM.trees: container -> last committed vnode
    dom,            \* per element, its child nodes
    commitLog,      \* every _commit call so far: container, vnode, flush number, threw,
                    \* the container's tree and child nodes before and after it
    flushCount,     \* the number of _flush calls that found a non-empty queue
    flushed,        \* per such _flush call, the entries it took from the queue
    batch,          \* per container, the vnodes passed to non-sync render calls since
                    \* the last microtask flush
    lastFlush,      \* what the last microtask flush saw and did
    valueHist,      \* per key, the values the Binding has held, oldest first
    setsInTurn,     \* per key, the set calls since the last microtask flush
    subFrom,        \* per subscriber, the length of valueHist when it subscribed
    nCalls,         \* the number of vdom.render calls so far
    nSets, nRenders, nBinds, \* the set, direct render and bindState calls so far
    \* the page under hot module replacement (src/client/hmr.js)
    timers,         \* the pending setTimeout callbacks of the hmr:update handler
    _debounceTimer, \* HotModuleReplacement._debounceTimer: a timer id, or NoTimer
    clock,          \* the time in ms
    notifications,  \* the arrival times of the hmr:update messages so far
    cycles,         \* the calls of the timer callback so far, each with its progress
    stepLog,        \* per such call, the steps it has taken so far
    events,         \* the hmr:updated events dispatched on window so far
    overlay,        \* the ErrorOverlay.log calls so far
    liveDocument,   \* the children of document.body, as a tree
    activeElement,  \* the path of document.activeElement, or NoPath for the body
    scrollY,        \* window.scrollY
    styleStamp,     \* the hmr parameter of the stylesheet links
    reinits,        \* the initializeState and initializeComponents calls so far
    reloads,        \* the number of times the page has been reloaded
    replaced,       \* per call of processUpdate that got to mergeContent: the document
                    \* before it, the containers it chose, the document after
                    \* mergeContent and the document after the call
    nUser           \* the user's actions on the page so far

storeVars == <<stateBindings, busListeners, received, inputListeners, elValue,
               elChecked, inserted, observing, mutations, effect, nToggles,
               nInits, bindLog, memoizedValues, console, store, socket, server, vnodes, errorOverlay,
               valueHist, setsInTurn, subFrom, nSets, nBinds>>
auxVars == <<memoizedValues, console, store, socket, server, vnodes, errorOverlay>>
restVars == <<memoizedValues, store, socket, server, vnodes, errorOverlay>>
vdomVars == <<queue, scheduled, microtasks, trees, dom, commitLog, flushCount,
              flushed, batch, lastFlush, nCalls, nRenders>>
hmrVars == <<timers, _debounceTimer, clock, notifications, cycles, stepLog, events, overlay,
             liveDocument, activeElement, scrollY, styleStamp, reinits, reloads,
             replaced,
             nUser>>
vars == <<storeVars, vdomVars, hmrVars>>

NoBinding == [t |-> "nobinding"]
\* memoizedValues as constructed: values is the Map from joined dependency
\* list to cached value, listeners the listeners useMemo added to the event
\* bus, calls and invoked the useMemo calls and the factory calls so far
NoMemo == [values |-> <<>>, listeners |-> <<>>, calls |-> <<>>, invoked |-> <<>>]
NoStore == [created |-> FALSE, state |-> <<>>, subscribers |-> {}, notified |-> <<>>,
            calls |-> <<>>]
\* no socket yet: initState has not run, nothing was received or emitted
NoSocket == [on |-> FALSE, got |-> <<>>, emitted |-> <<>>, calls |-> <<>>]

(***************************************************************************)
(* _commit and _flush.                                                     *)
(***************************************************************************)
TreeOf(tr, container) == IF container \in DOMAIN tr THEN tr[container] ELSE Undefined

SetFn(f, k, v) == [x \in DOMAIN f \cup {k} |-> IF x = k THEN v ELSE f[x]]

ContainerNode(kids) == ElNode("container", NoProps, {}, kids)

\* a mount that leaves the trees as they were
MountedUnrecorded(prev, vnode, made) ==
    [ok |-> made.ok, tree |-> prev,
     kids |-> IF made.ok THEN <<made.node>> ELSE <<>>]

\* the container after "innerHTML = ''; appendChild(createDOMElement(vnode))"
Mounted(prev, vnode, made) ==
    IF made.ok THEN [ok |-> TRUE, tree |-> vnode, kids |-> <<made.node>>]
    ELSE [ok |-> FALSE, tree |-> prev, kids |-> <<>>]

\* the container after "this.diff(prev, vnode, container)"
Diffed(prev, vnode, d) ==
    [ok |-> d.ok, tree |-> IF d.ok THEN vnode ELSE prev, kids |-> d.parent.kids]

\* _commit(container, vnode) on the trees and the child nodes of the container:
\* [ok, tree, kids]; the tree is recorded only when no DOM call threw
_commit(prev, kids, vnode) ==
    IF IsRaw(vnode)
    THEN [ok |-> TRUE, tree |-> vnode, kids |-> ParseHTML(vnode.html)]
    ELSE IF prev = Undefined \/ IsRaw(prev)
    THEN Mounted(prev, vnode, createDOMElement(vnode))
    ELSE Diffed(prev, vnode, diff(prev, vnode, ContainerNode(kids), 0))

RECURSIVE FlushEntries(_, _, _, _, _), FlushNext(_, _, _, _, _, _)
\* the loop of _flush over the entries taken from the queue; an exception thrown
\* by _commit leaves the loop
FlushEntries(entries, tr, d, log, n) ==
    IF entries = <<>> THEN [trees |-> tr, dom |-> d, log |-> log, threw |-> FALSE]
    ELSE FlushNext(entries, tr, d, log, n,
                   _commit(TreeOf(tr, Head(entries).container),
                           d[Head(entries).container], Head(entries).vnode))

\* the state after one _commit call c of the loop, and the rest of the loop
FlushNext(entries, tr, d, log, n, c) ==
    LET e == Head(entries)
        tr2 == IF c.tree = Undefined THEN tr ELSE SetFn(tr, e.container, c.tree)
        after == Stamped(c.kids, Len(log) + 1)
        d2 == [d EXCEPT ![e.container] = after]
        log2 == Append(log, [container |-> e.container, vnode |-> e.vnode,
                             call |-> e.call, flush |-> n, threw |-> ~c.ok,
                             prev |-> TreeOf(tr, e.container),
                             tree |-> TreeOf(tr2, e.container),
                             before |-> d[e.container], after |-> after])
    IN IF c.ok THEN FlushEntries(Tail(entries), tr2, d2, log2, n)
       ELSE [trees |-> tr2, dom |-> d2, log |-> log2, threw |-> TRUE]

\* this.queue.set(container, vnode): a Map keeps the position of an existing key
QueueSet(q, container, vnode, call) ==
    LET entry == [container |-> container, vnode |-> vnode, call |-> call]
    IN IF \E i \in 1..Len(q) : q[i].container = container
       THEN [i \in 1..Len(q) |-> IF q[i].container = container THEN entry ELSE q[i]]
       ELSE Append(q, entry)

\* _flush() on a queue q: the state of the renderer after it
_flush(q) ==
    IF q = <<>>
    THEN [trees |-> trees, dom |-> dom, log |-> commitLog, flushes |-> flushCount,
          flushed |-> flushed]
    ELSE LET r == FlushEntries(q, trees, dom, commitLog, flushCount + 1)
         IN [trees |-> r.trees, dom |-> r.dom, log |-> r.log,
             flushes |-> flushCount + 1, flushed |-> Append(flushed, q)]

(***************************************************************************)
(* render and _schedule.                                                   *)
(***************************************************************************)
\* the renderer fields render(vnode, container) without options.sync changes:
\* the vnode is queued and a flush microtask is queued unless one is scheduled
RenderQueued(r, container, vnode) ==
    [queue |-> QueueSet(r.queue, container, vnode, r.calls + 1),
     scheduled |-> TRUE,
     microtasks |-> IF r.scheduled THEN r.microtasks ELSE r.microtasks + 1,
     batch |-> [r.batch EXCEPT ![container] =
                  Append(@, [vnode |-> vnode, call |-> r.calls + 1, sync |-> FALSE])],
     calls |-> r.calls + 1]

Renderer ==
    [queue |-> queue, scheduled |-> scheduled, microtasks |-> microtasks,
     batch |-> batch, calls |-> nCalls]

(***************************************************************************)
(* ComponentManager (src/client/hooks.js).                                 *)
(***************************************************************************)
NoFormatter == "none"
\* no exception is on its way up the call stack
NoError == "none"

\* window.ReactExpress.formatters as seeded: the names has() is true of
FormatterRegistry == {"json"}
\* the names of the functions the page's scripts define on window
GlobalFunctions == {}
\* formatter.startsWith('js:')
StartsWithJs(formatter) == formatter \in {ToFixed, NotAnExpression}
\* whether "new Function('value', `return (${expr})`)" throws a SyntaxError
SyntaxErrorIn(formatter) == formatter = NotAnExpression

\* _resolveFormatter(formatter) for a string: the function found, named by the
\* string it was found under, or NoFormatter for null; and the console after it
_resolveFormatter(out, formatter) ==
    CASE formatter \in FormatterRegistry -> [fn |-> formatter, console |-> out]
      [] formatter \in GlobalFunctions -> [fn |-> formatter, console |-> out]
      [] StartsWithJs(formatter) /\ ~SyntaxErrorIn(formatter) ->
           [fn |-> formatter, console |-> out]
      [] StartsWithJs(formatter) /\ SyntaxErrorIn(formatter) ->
           [fn |-> NoFormatter,
            console |-> Append(out, [message |-> "Invalid formatter",
                                     about |-> formatter])]
      [] OTHER -> [fn |-> NoFormatter, console |-> out]

RECURSIVE JsonItems(_)
\* the lines of the items of JSON.stringify(array, null, 2)
JsonItems(items) ==
    IF Len(items) = 1 THEN "  \"" \o items[1] \o "\"\n"
    ELSE "  \"" \o Head(items) \o "\",\n" \o JsonItems(Tail(items))

\* JSON.stringify(value, null, 2)
JsonStringify(value) ==
    CASE value.t = "str" -> "\"" \o value.s \o "\""
      [] value.t = "num" -> NumToStr(value.n)
      [] value.t = "bool" -> IF value.b THEN "true" ELSE "false"
      [] value.t = "arr" -> IF value.items = <<>> THEN "[]"
                            ELSE "[\n" \o JsonItems(value.items) \o "]"

\* a call of the formatter that is made when there is none, too
ThrowsUnguarded(value, formatter) ==
    formatter = NoFormatter \/ (formatter = ToFixed /\ value.t # "num")

\* whether "formatter ? formatter(value) : value" throws: no formatter is not
\* called, and toFixed is a method of numbers only
Throws(value, formatter) ==
    formatter # NoFormatter /\ formatter = ToFixed /\ value.t # "num"

\* formatter ? formatter(value) : value, for a formatter that returns
Display(value, formatter) ==
    CASE formatter = "json" ->
           IF value = Undefined THEN Str("") ELSE Str(JsonStringify(value))
      [] formatter = ToFixed -> Str(NumToStr(value.n) \o ".00")
      [] OTHER -> value

\* the vnode _updateElement hands to vdom.render for a display value
VNodeOfDisplay(displayValue) ==
    CASE displayValue = Undefined -> Str("")
      [] displayValue.t = "arr" ->
           El("div", NoProps, [i \in 1..Len(displayValue.items) |->
                                 Str(displayValue.items[i])])
      [] OTHER -> displayValue

FormatterOf(binding, e) ==
    IF e \in DOMAIN binding.formatters THEN binding.formatters[e] ELSE NoFormatter

\* value.includes(x) for an array of strings
Includes(value, x) == \E i \in 1..Len(value.items) : value.items[i] = x

\* _updateElement(element, value, formatter) on the page: the values and the
\* checkedness of the form controls, and the renderer
Updated(st, e, value, formatter) ==
    LET displayValue == Display(value, formatter)
    IN IF Throws(value, formatter) THEN [st EXCEPT !.thrown = "TypeError"]
       ELSE IF IsFormControl(e)
       THEN IF IsCheckbox(e)
            THEN [st EXCEPT !.elChecked[e] = IF value.t = "arr"
                                             THEN Includes(value, ValueAttr(e))
                                             ELSE ~Falsy(value)]
            ELSE IF IsRadio(e) THEN st
            ELSE [st EXCEPT !.elValue[e] = ToText(displayValue)]
       ELSE [st EXCEPT !.r = RenderQueued(st.r, e, VNodeOfDisplay(displayValue))]

\* the catch block of _updateElement: console.error('Error updating element:', e)
Caught(st, done, e) ==
    IF done.thrown = NoError THEN done
    ELSE [st EXCEPT !.console = Append(@, [message |-> "Error updating element:",
                                            about |-> e.slot])]

\* an _updateElement whose body is not in a try block
_updateElementUncaught(st, e, value, formatter) == Updated(st, e, value, formatter)

\* _updateElement(element, value, formatter)
_updateElement(st, e, value, formatter) ==
    Caught(st, Updated(st, e, value, formatter), e)

RECURSIVE UpdateEach(_, _, _, _)
\* binding.elements.forEach(element => this._updateElement(...))
UpdateEach(st, elements, binding, value) ==
    IF elements = <<>> \/ st.thrown # NoError THEN st
    ELSE UpdateEach(_updateElement(st, Head(elements), value,
                                   FormatterOf(binding, Head(elements))),
                    Tail(elements), binding, value)

\* _updateBoundElements(key)
_updateBoundElements(st, binding) ==
    UpdateEach(st, binding.elements, binding, binding.value)

\* a change event whose `previous` is the new value, not the one before it
ChangeEventStale(value, prev) == [value |-> value, previous |-> value]

\* the detail of the CustomEvent _setBindingValue dispatches
ChangeEvent(value, prev) == [value |-> value, previous |-> prev]

\* a _setBindingValue that records the value before the set and stores nothing
AssignedKeepsValue(binding, value) == [binding EXCEPT !.prev = binding.value]

\* the Binding after the assignments of _setBindingValue
Assigned(binding, value) == [binding EXCEPT !.prev = binding.value, !.value = value]

\* eventBus.dispatchEvent: every listener of the key is called, in order
Dispatched(rcv, listeners, event) ==
    [s \in DOMAIN rcv |->
       IF \E i \in 1..Len(listeners) : listeners[i] = s
       THEN Append(rcv[s], event) ELSE rcv[s]]

InSeq(x, s) == \E i \in 1..Len(s) : s[i] = x

\* "let cleanup = null" of useEffect: no cleanup is pending
NoCleanup == 0
\* no effect registered yet; regAt and offAt are the numbers of sets made on
\* each key when the effect was registered and when it was unregistered
NoEffect ==
    [state |-> "unset", deps |-> {}, returns |-> {}, cleanup |-> NoCleanup,
     runs |-> 0, log |-> <<>>, regAt |-> <<>>, offAt |-> <<>>]

\* a handler that runs the callback and leaves the pending cleanup alone
handlerSkipsCleanup(fx) ==
    [fx EXCEPT !.runs = fx.runs + 1,
               !.log = Append(fx.log, [kind |-> "run", run |-> fx.runs + 1]),
               !.cleanup = IF fx.runs + 1 \in fx.returns THEN fx.runs + 1 ELSE NoCleanup]

\* the handler of useEffect, "if (cleanup) cleanup(); cleanup = callback()": the
\* cleanup is named by the run of the callback that returned it
handler(fx) ==
    LET cleaned == IF fx.cleanup # NoCleanup
                   THEN Append(fx.log, [kind |-> "cleanup", run |-> fx.cleanup])
                   ELSE fx.log
    IN [fx EXCEPT !.runs = fx.runs + 1,
                  !.log = Append(cleaned, [kind |-> "run", run |-> fx.runs + 1]),
                  !.cleanup = IF fx.runs + 1 \in fx.returns THEN fx.runs + 1
                              ELSE NoCleanup]

\* eventBus.dispatchEvent for the handler of the effect, a listener of each of
\* its dependency keys until it is removed
EffectDispatched(fx, key) ==
    IF fx.state = "on" /\ key \in fx.deps THEN handler(fx) ELSE fx

RECURSIVE Join(_)
\* dependencies.join('|')
Join(deps) ==
    IF deps = <<>> THEN ""
    ELSE IF Len(deps) = 1 THEN deps[1]
    ELSE deps[1] \o "|" \o Join(Tail(deps))

\* factory(): a factory reads the values of the state keys when it is called
Factory(f, bindings) ==
    [by |-> f,
     sees |-> [k \in {"count", "name"} |->
                 IF bindings[k] = NoBinding THEN Undefined ELSE bindings[k].value]]

\* a listener that leaves the cached value as it is
RefreshedNever(memo, l, bindings) == memo

\* the listener "() => this.memoizedValues.set(key, factory())"
Refreshed(memo, l, bindings) ==
    [memo EXCEPT !.values = [k \in DOMAIN memo.values \cup {l.key} |->
                               IF k = l.key THEN Factory(l.f, bindings)
                               ELSE memo.values[k]],
                 !.invoked = Append(@, l.f)]

RECURSIVE MemoDispatched(_, _, _, _)
\* eventBus.dispatchEvent for the listeners useMemo added, from the i-th on
MemoDispatched(memo, i, dep, bindings) ==
    IF i > Len(memo.listeners) THEN memo
    ELSE MemoDispatched(IF memo.listeners[i].dep = dep
                        THEN Refreshed(memo, memo.listeners[i], bindings)
                        ELSE memo,
                        i + 1, dep, bindings)

\* the form controls and the renderer, what _updateElement writes to
Page ==
    [elValue |-> elValue, elChecked |-> elChecked, r |-> Renderer,
     console |-> console, thrown |-> NoError]

\* what a set reads and writes: the Bindings, the page, what the listeners of
\* the event bus have got, and the record of the sets
World(page) ==
    [bindings |-> stateBindings, page |-> page, received |-> received,
     effect |-> effect, memo |-> memoizedValues, hist |-> valueHist,
     sets |-> setsInTurn, nSets |-> nSets]

\* the dispatch of the change event at the end of _setBindingValue, which an
\* exception thrown before it skips
Emitted(st, before, after) == IF st.thrown # NoError THEN before ELSE after

\* _setBindingValue(key, value) in a world W
SetIn(W, key, value) ==
    LET old == W.bindings[key]
        binding == Assigned(old, value)
        bindings == [W.bindings EXCEPT ![key] = binding]
        st == _updateBoundElements(W.page, binding)
    IN [bindings |-> bindings,
        page |-> st,
        received |-> Emitted(st, W.received,
                             Dispatched(W.received, busListeners[key],
                                        ChangeEvent(value, old.value))),
        effect |-> Emitted(st, W.effect, EffectDispatched(W.effect, key)),
        memo |-> Emitted(st, W.memo, MemoDispatched(W.memo, 1, key, bindings)),
        hist |-> [W.hist EXCEPT ![key] = Append(@, value)],
        sets |-> [W.sets EXCEPT ![key] =
                    Append(@, [value |-> value, threw |-> st.thrown,
                               elements |-> {e \in DOMAIN dom :
                                               InSeq(e, old.elements)}])],
        nSets |-> W.nSets + 1]

\* the world W is the one after the step
Written(W) ==
    /\ stateBindings' = W.bindings
    /\ elValue' = W.page.elValue
    /\ elChecked' = W.page.elChecked
    /\ queue' = W.page.r.queue
    /\ scheduled' = W.page.r.scheduled
    /\ microtasks' = W.page.r.microtasks
    /\ batch' = W.page.r.batch
    /\ nCalls' = W.page.r.calls
    /\ console' = W.page.console
    /\ received' = W.received
    /\ effect' = W.effect
    /\ memoizedValues' = W.memo
    /\ valueHist' = W.hist
    /\ setsInTurn' = W.sets
    /\ nSets' = W.nSets
    /\ UNCHANGED hmrVars
    /\ UNCHANGED <<busListeners, inputListeners, trees, dom, commitLog,
                   flushCount, flushed, lastFlush, subFrom, nBinds, nRenders,
                   inserted, observing, mutations, nInits, bindLog,
                   server, vnodes, errorOverlay>>

\* a subscriber whose handler sets the key again while it handles an event:
\* value => { if (value === "b") set("") }
Resetters == {"r1"}
Rejected == Str("b")
ResetTo == Str("")

RECURSIVE SetNested(_, _, _), DispatchEach(_, _, _, _)
\* _setBindingValue(key, value) in a world W where handlers of the key may
\* set it again: dispatchEvent calls the listeners one after the other, and
\* a set made by one of them runs to its end, dispatch included, before the
\* next listener is called
SetNested(W, key, value) ==
    DispatchEach([SetIn(W, key, value) EXCEPT !.received = W.received],
                 busListeners[key], key,
                 ChangeEvent(value, W.bindings[key].value))

\* the listeners of the key called in order with the event
DispatchEach(W, listeners, key, event) ==
    IF listeners = <<>> \/ W.page.thrown # NoError THEN W
    ELSE DispatchEach(
           IF Head(listeners) \in Resetters /\ event.value = Rejected
           THEN SetNested([W EXCEPT !.received[Head(listeners)] = Append(@, event)],
                          key, ResetTo)
           ELSE [W EXCEPT !.received[Head(listeners)] = Append(@, event)],
           Tail(listeners), key, event)

\* _setBindingValue(key, value) called on a page
_setBindingValueOn(page, key, value) == Written(SetIn(World(page), key, value))

\* _setBindingValue(key, value)
_setBindingValue(key, value) ==
    /\ _setBindingValueOn(Page, key, value)
    /\ UNCHANGED <<nToggles, store, socket>>

(***************************************************************************)
(* The hooks and the calls of the page's scripts.                          *)
(***************************************************************************)
Elements == {Elem(slot) : slot \in Slots}
LateElements == {e \in Elements : Markup[e.slot].late}
\* the slots inside the container a hot update replaces, and the elements the
\* updates put in their places: generation g is made by the g-th update
MaxReplaces == 2
ReplacedSlots == {"label"}
Replacements ==
    {[gen |-> g, slot |-> slot] : g \in 1..MaxReplaces, slot \in ReplacedSlots}
Nodes == Elements \cup Replacements
\* whether an element is in the document, ins being the elements inserted
\* since the page loaded: it was served with the page or inserted, and no
\* later element has taken its place
InDocumentIn(ins, e) ==
    /\ (e.gen = 0 /\ ~Markup[e.slot].late) \/ e \in ins
    /\ ~\E x \in ins : x.slot = e.slot /\ x.gen > e.gen
InDocument(e) == InDocumentIn(inserted, e)
\* the element in a slot of the document, if there is one
InSlot(ins, slot) == {e \in Nodes : e.slot = slot /\ InDocumentIn(ins, e)}

Subscribers == {"s1", "s2"}
\* the keys each subscriber's script may subscribe it to
SubscribesTo(s) == IF s = "s1" THEN {"count"} ELSE Keys
\* the subscribers registered by the page's setup script, before any set call
SetupSubscribers == {"s1"}

\* the elements document.querySelectorAll('[data-react-state="key"]') returns,
\* in document order
RECURSIVE Matching(_, _)
Matching(order, key) ==
    IF order = <<>> THEN <<>>
    ELSE IF Markup[Head(order)].key = key /\ InSlot(inserted, Head(order)) # {}
    THEN <<CHOOSE e \in InSlot(inserted, Head(order)) : TRUE>>
         \o Matching(Tail(order), key)
    ELSE Matching(Tail(order), key)

NewBinding(value) ==
    [value |-> value, prev |-> Undefined, elements |-> <<>>,
     formatters |-> [e \in {} |-> NoFormatter]]

\* elements kept in a list: a second add is a second entry
AddElementToList(elements, e) == Append(elements, e)

\* binding.elements.add(element): a Set keeps one copy, in insertion order
AddElement(elements, e) == IF InSeq(e, elements) THEN elements ELSE Append(elements, e)

\* "if (resolved) binding.formatters.set(element, resolved)"
WithFormatter(binding, e, resolved) ==
    IF resolved.fn = NoFormatter THEN binding
    ELSE [binding EXCEPT !.formatters =
            [x \in DOMAIN @ \cup {e} |-> IF x = e THEN resolved.fn ELSE @[x]]]

RECURSIVE ScanEach(_, _)
\* the forEach of _scanForStateBindings on the pair <<binding, listener counts>>
ScanEach(st, found) ==
    IF found = <<>> THEN st
    ELSE LET e == Head(found)
             fresh == ~InSeq(e, st.binding.elements)
             attach == fresh /\ st.listeners[e] = 0 /\ IsFormControl(e)
         IN ScanEach([binding |-> IF fresh
                                  THEN WithFormatter(
                                         [st.binding EXCEPT !.elements = Append(@, e)],
                                         e, _resolveFormatter(st.console, FormatAttr(e)))
                                  ELSE st.binding,
                      listeners |-> IF attach
                                    THEN [st.listeners EXCEPT ![e] = @ + 1]
                                    ELSE st.listeners,
                      console |-> IF fresh
                                  THEN _resolveFormatter(st.console, FormatAttr(e)).console
                                  ELSE st.console],
                     Tail(found))

\* _scanForStateBindings(key), given the listeners attached so far
_scanForStateBindings(binding, listeners, out, key) ==
    ScanEach([binding |-> binding, listeners |-> listeners, console |-> out],
             Matching(DocOrder, key))

\* the store and the page, what the hooks read and write
Store ==
    [bindings |-> stateBindings, listeners |-> inputListeners, hist |-> valueHist,
     elValue |-> elValue, elChecked |-> elChecked, r |-> Renderer,
     console |-> console, thrown |-> NoError]

\* the store and the page after a call of a hook
Stored(S) ==
    /\ stateBindings' = S.bindings
    /\ inputListeners' = S.listeners
    /\ valueHist' = S.hist
    /\ elValue' = S.elValue
    /\ elChecked' = S.elChecked
    /\ queue' = S.r.queue
    /\ scheduled' = S.r.scheduled
    /\ microtasks' = S.r.microtasks
    /\ batch' = S.r.batch
    /\ nCalls' = S.r.calls
    /\ console' = S.console

\* the Binding useState creates for a key that has none, after the scan
Scanned(S, key, scanned, initialValue) ==
    [S EXCEPT !.bindings[key] = scanned.binding,
              !.listeners = scanned.listeners,
              !.console = scanned.console,
              !.hist[key] = Append(@, initialValue)]

\* hooks.useState(key, initialValue), up to the return of the accessors
useStateIn(S, key, initialValue) ==
    IF S.bindings[key] # NoBinding THEN S
    ELSE Scanned(S, key,
                 _scanForStateBindings(NewBinding(initialValue), S.listeners,
                                       S.console, key),
                 initialValue)

\* the initial values the page's scripts pass for a key
InitialValues(key) ==
    CASE key = "count" -> {Num(0), Str("a")}
      [] key = FormatKey -> {Num(5)}
      [] OTHER -> {Str("a")}

\* hooks.useState(key, initialValue), the first call for the key
useState(key, initialValue) ==
    /\ stateBindings[key] = NoBinding
    /\ Stored(useStateIn(Store, key, initialValue))
    /\ UNCHANGED hmrVars
    /\ UNCHANGED <<busListeners, received, setsInTurn, subFrom, nSets, nBinds,
                   inserted, observing, mutations, effect, nToggles, nInits,
                   bindLog, restVars>>
    /\ UNCHANGED <<trees, dom, commitLog, flushCount, flushed, lastFlush, nRenders>>

\* prev => prev + 1
Increment(v) ==
    CASE v.t = "num" -> Num(v.n + 1)
      [] v.t = "str" -> Str(v.s \o "1")
      [] OTHER -> v

\* the values the page's scripts set a key to
SetValues(key) ==
    CASE key = "count" -> {Str("b"), Str("")}
      [] key = FormatKey -> {Num(5), Str("x")}
      [] OTHER -> {Str("b")}
\* the keys the page's scripts update with prev => prev + 1
UpdaterKeys == {"count"}

\* the setter useState returns, called with a value
setState(key, newValue) ==
    /\ stateBindings[key] # NoBinding
    /\ nSets < MaxSets
    /\ _setBindingValue(key, newValue)

\* the setter useState returns, called with a value while handlers that set
\* the key again are among its subscribers
setStateNested(key, newValue) ==
    /\ stateBindings[key] # NoBinding
    /\ nSets + (IF newValue = Rejected THEN 2 ELSE 1) <= MaxSets
    /\ Written(SetNested(World(Page), key, newValue))
    /\ UNCHANGED <<nToggles, store, socket>>

\* the setter useState returns, called with the updater prev => prev + 1
setStateUpdater(key) ==
    /\ stateBindings[key] # NoBinding
    /\ nSets < MaxSets
    /\ stateBindings[key].value # Undefined
    /\ _setBindingValue(key, Increment(stateBindings[key].value))

\* the Binding bindState finds or creates, with the element added
BoundTo(S, key, e) ==
    LET old == IF S.bindings[key] = NoBinding THEN NewBinding(Undefined)
               ELSE S.bindings[key]
    IN [S EXCEPT !.bindings[key] = [old EXCEPT !.elements = AddElement(@, e)],
                 !.hist[key] = IF S.bindings[key] = NoBinding
                               THEN Append(@, Undefined) ELSE @]

\* a bindState that updates the element whether or not the Binding has a value
bindStateAlways(S, key, e) ==
    _updateElement(BoundTo(S, key, e), e, BoundTo(S, key, e).bindings[key].value,
                   FormatterOf(BoundTo(S, key, e).bindings[key], e))

\* hooks.bindState(key, element), no formatter given
bindStateIn(S, key, e) ==
    LET B == BoundTo(S, key, e)
    IN IF B.bindings[key].value # Undefined
       THEN _updateElement(B, e, B.bindings[key].value,
                           FormatterOf(B.bindings[key], e))
       ELSE B

\* hooks.bindState(key, element, formatter) with a formatter named by a string
bindStateWith(S, key, e, formatter) ==
    LET B == BoundTo(S, key, e)
        resolved == _resolveFormatter(B.console, formatter)
        R == [B EXCEPT !.bindings[key] = WithFormatter(@, e, resolved),
                       !.console = resolved.console]
    IN IF R.bindings[key].value # Undefined
       THEN _updateElement(R, e, R.bindings[key].value, FormatterOf(R.bindings[key], e))
       ELSE R

\* the record of a bindState call
Bound(key, e, done) ==
    [key |-> key, element |-> e, threw |-> done.thrown,
     hadValue |-> stateBindings[key] # NoBinding
                  /\ stateBindings[key].value # Undefined]

\* a call of hooks.bindState(key, element) by the page's scripts
bindState(key, e) ==
    /\ nBinds < MaxBinds
    /\ InDocument(e)
    /\ Stored(bindStateIn(Store, key, e))
    /\ UNCHANGED restVars
    /\ bindLog' = Append(bindLog, Bound(key, e, bindStateIn(Store, key, e)))
    /\ nBinds' = nBinds + 1
    /\ UNCHANGED hmrVars
    /\ UNCHANGED <<busListeners, received, setsInTurn, subFrom, nSets,
                   inserted, observing, mutations, effect, nToggles, nInits>>
    /\ UNCHANGED <<trees, dom, commitLog, flushCount, flushed, lastFlush, nRenders>>

\* components.onStateChange(key, handler): the handler records what it is given
onStateChange(key, s) ==
    /\ subFrom[s] = -1
    /\ s \in SetupSubscribers => nSets = 0
    /\ busListeners' = [busListeners EXCEPT ![key] = Append(@, s)]
    /\ subFrom' = [subFrom EXCEPT ![s] = Len(valueHist[key])]
    /\ UNCHANGED hmrVars
    /\ UNCHANGED <<stateBindings, received, inputListeners, elValue, valueHist,
                   setsInTurn, nSets, nBinds, vdomVars>>
    /\ UNCHANGED <<elChecked, inserted, observing, mutations, effect, nToggles,
                   nInits, bindLog, auxVars>>

\* the input listener _scanForStateBindings attached to a text control, run for
\* an input event: this._setBindingValue(key, element.value)
InputTexts == {"x"}
inputEvent(e, text) ==
    /\ microtasks = 0
    /\ IsFormControl(e) /\ ~IsCheckbox(e) /\ ~IsRadio(e) /\ inputListeners[e] = 1
    /\ KeyOf(e) \in Keys /\ stateBindings[KeyOf(e)] # NoBinding
    /\ nSets < MaxSets
    /\ _setBindingValue(KeyOf(e), Str(text))

(***************************************************************************)
(* The bridge of the state module (src/unnamed/part_003): initializeState  *)
(* and the mutation observer it installs.                                  *)
(***************************************************************************)
MaxInits == 2
MaxToggles == 3

\* the value primeAndBind reads from the element: element.value of a control
\* (the value attribute for a checkbox or a radio button), element.textContent
\* of anything else
InitialOf(S, e) ==
    IF IsFormControl(e)
    THEN Str(IF IsCheckbox(e) \/ IsRadio(e) THEN ValueAttr(e) ELSE S.elValue[e])
    ELSE Str(TextOfKids(dom[e]))

\* primeAndBind(element): hooks.useState(key, initial); hooks.bindState(key, element)
primeAndBind(S, e) ==
    IF KeyOf(e) = "" THEN S
    ELSE bindStateIn(useStateIn(S, KeyOf(e), InitialOf(S, e)), KeyOf(e), e)

RECURSIVE primeEach(_, _)
\* elements.forEach(primeAndBind)
primeEach(S, found) ==
    IF found = <<>> THEN S
    ELSE primeEach(primeAndBind(S, Head(found)), Tail(found))

\* document.querySelectorAll("[data-react-state]")
StateElementsIn(ins) ==
    LET slots == SelectSeq(DocOrder, LAMBDA slot : /\ Markup[slot].key # ""
                                                   /\ InSlot(ins, slot) # {})
    IN [i \in 1..Len(slots) |-> CHOOSE e \in InSlot(ins, slots[i]) : TRUE]
StateElements == StateElementsIn(inserted)

\* ReactExpress.initializeState(): every state element of the document is
\* primed and bound, and the mutation observer is installed unless it is
Initialized ==
    /\ nInits < MaxInits
    /\ Stored(primeEach(Store, StateElements))
    /\ observing' = TRUE
    /\ nInits' = nInits + 1
    /\ UNCHANGED hmrVars
    /\ UNCHANGED <<busListeners, received, setsInTurn, subFrom, nSets, nBinds,
                   inserted, mutations, effect, nToggles, bindLog,
                   memoizedValues, store, server, vnodes, errorOverlay>>
    /\ UNCHANGED <<trees, dom, commitLog, flushCount, flushed, lastFlush, nRenders>>

initializeState == Initialized /\ UNCHANGED socket

\* markup with a state element is inserted into the document (by the router or
\* a hot update); an installed observer is notified in a microtask
insertMarkup(e) ==
    /\ e \in LateElements \ inserted
    /\ inserted' = inserted \cup {e}
    /\ mutations' = IF observing THEN Append(mutations, e) ELSE mutations
    /\ UNCHANGED hmrVars
    /\ UNCHANGED <<stateBindings, busListeners, received, inputListeners, elValue,
                   elChecked, observing, effect, nToggles, nInits, bindLog, auxVars,
                   valueHist, setsInTurn, subFrom, nSets, nBinds, vdomVars>>

\* the end of a hot update of a page that has been initialised, from
\* mergeContent on: the elements of the container are replaced by new ones,
\* restoreStateValues writes the text of the old ones into them, and
\* initializeState primes and binds every state element of the document; the
\* observer is notified of the new elements in a microtask
hmrReplace ==
    /\ observing /\ microtasks = 0
    /\ LET slots == SelectSeq(DocOrder, LAMBDA slot : slot \in ReplacedSlots)
           old == [i \in 1..Len(slots) |-> CHOOSE e \in InSlot(inserted, slots[i]) : TRUE]
           new == [i \in 1..Len(slots) |-> [gen |-> old[i].gen + 1, slot |-> slots[i]]]
           ins == inserted \cup {new[i] : i \in 1..Len(slots)}
       IN /\ \A i \in 1..Len(slots) : old[i].gen < MaxReplaces
          /\ inserted' = ins
          /\ mutations' = mutations \o new
          /\ dom' = [e \in Nodes |->
                       IF \E i \in 1..Len(slots) : e = new[i]
                       THEN LET i == CHOOSE j \in 1..Len(slots) : e = new[j]
                            IN IF TextOfKids(dom[old[i]]) = "" THEN <<>>
                               ELSE <<TextNode(TextOfKids(dom[old[i]]))>>
                       ELSE dom[e]]
          /\ Stored(primeEach(Store, StateElementsIn(ins)))
    /\ UNCHANGED hmrVars
    /\ UNCHANGED <<busListeners, received, setsInTurn, subFrom, nSets, nBinds,
                   observing, effect, nToggles, nInits, bindLog, restVars>>
    /\ UNCHANGED <<trees, commitLog, flushCount, flushed, lastFlush, nRenders>>

\* the callback of the MutationObserver: primeAndBind for every added element
\* that carries data-react-state
observerCallback ==
    /\ mutations # <<>>
    /\ Stored(primeEach(Store, mutations))
    /\ mutations' = <<>>
    /\ UNCHANGED hmrVars
    /\ UNCHANGED <<busListeners, received, setsInTurn, subFrom, nSets, nBinds,
                   inserted, observing, effect, nToggles, nInits, bindLog, restVars>>
    /\ UNCHANGED <<trees, dom, commitLog, flushCount, flushed, lastFlush, nRenders>>

(***************************************************************************)
(* The socket bridge of the state module: ReactExpress.setState,           *)
(* batchUpdate and initState.                                              *)
(***************************************************************************)
MaxInbound == 2
\* a state:update or state:batch-update message: the pairs it carries
Pair(key, value) == [key |-> key, value |-> value]
Message(event, updates) == [event |-> event, updates |-> updates]

\* handlers that pass no options, leaving the callee's defaults to sync
HandlerOptionsOmitted == [sync |-> TRUE]
\* the options the socket handlers of initState pass: { sync: false }
HandlerOptions == [sync |-> FALSE]
\* the default options of batchUpdate: { sync: true }
BatchDefaults == [sync |-> TRUE]
\* the default options of ReactExpress.setState: { sync: false }
SetDefaults == [sync |-> FALSE]

\* a call that passes no options argument
Omitted == [omitted |-> TRUE]
\* options = defaults in a parameter list
OptionsOr(options, defaults) == IF options = Omitted THEN defaults ELSE options

\* if (options.sync && socket) socket.emit(event, ...), which an exception
\* thrown by the sets before it skips
Emit(so, W, options, event, updates) ==
    IF options.sync /\ so.on /\ W.page.thrown = NoError
    THEN [so EXCEPT !.emitted = Append(@, Message(event, updates))]
    ELSE so

\* ReactExpress.setState(key, value, options) where the key has a Binding:
\* the set of the hooks store, then the emit
ReactExpress_setStateIn(X, key, value, options) ==
    LET W == SetIn(X.world, key, value)
    IN [world |-> W,
        socket |-> Emit(X.socket, W, options, "state:update",
                        <<Pair(key, value)>>)]

\* Object.entries(updates).forEach(([key, value]) =>
\*     this.setState(key, value, { ...options, sync: false }))
RECURSIVE EachUpdate(_, _, _)
EachUpdate(X, updates, options) ==
    IF updates = <<>> \/ X.world.page.thrown # NoError THEN X
    ELSE EachUpdate(ReactExpress_setStateIn(X, Head(updates).key,
                                            Head(updates).value,
                                            [options EXCEPT !.sync = FALSE]),
                    Tail(updates), options)

\* the emit at the end of batchUpdate, after the sets have left world and
\* socket X
BatchEmitted(X, updates, options) ==
    [world |-> X.world,
     socket |-> Emit(X.socket, X.world, options, "state:batch-update", updates)]

\* ReactExpress.batchUpdate(updates, options)
ReactExpress_batchUpdateIn(X, updates, options) ==
    BatchEmitted(EachUpdate(X, updates, options), updates, options)

\* the handlers initState registers on the socket
Handled(X, msg) ==
    IF msg.event = "state:update"
    THEN ReactExpress_setStateIn(X, msg.updates[1].key, msg.updates[1].value,
                                 HandlerOptions)
    ELSE ReactExpress_batchUpdateIn(X, msg.updates, HandlerOptions)

\* the world and the socket X are the ones after the step
Applied(X) ==
    /\ Written(X.world)
    /\ socket' = X.socket
    /\ UNCHANGED <<nToggles, store>>

\* every key of the updates has a Binding (setState's useState(key, null)
\* finds it), and the sets fit the bound
Settable(updates) ==
    /\ nSets + Len(updates) <= MaxSets
    /\ \A i \in 1..Len(updates) : stateBindings[updates[i].key] # NoBinding

\* initState(socket) with a socket: initializeState(), then the two handlers
initState ==
    /\ ~socket.on
    /\ Initialized
    /\ socket' = [socket EXCEPT !.on = TRUE]

\* the messages the server sends to the page
SyncKeys == {"count", "name"}
BatchUpdates ==
    {<<Pair("count", Str("b")), Pair("name", Str("b"))>>,
     <<Pair("name", Str("b"))>>}
InboundMessages ==
    {Message("state:update", <<Pair(k, v)>>) : k \in SyncKeys, v \in {Str("b")}}
    \cup {Message("state:batch-update", u) : u \in BatchUpdates}

\* the socket delivers a message and its handler runs
receive(msg) ==
    /\ socket.on
    /\ Len(socket.got) < MaxInbound
    /\ Settable(msg.updates)
    /\ Applied(Handled([world |-> World(Page),
                        socket |-> [socket EXCEPT !.got = Append(@, msg)]],
                       msg))

\* the socket with a call of the page's scripts noted
Called(fn, updates, options) ==
    [socket EXCEPT !.calls = Append(@, [fn |-> fn, updates |-> updates,
                                        options |-> options])]

\* the options arguments of the page's scripts
CallOptions == {Omitted, [sync |-> TRUE], [sync |-> FALSE]}

\* a call of ReactExpress.setState(key, value, options) or of
\* ReactExpress.setState(key, value) by the page's scripts
ReactExpress_setState(key, value, options) ==
    /\ Settable(<<Pair(key, value)>>)
    /\ Applied(ReactExpress_setStateIn(
                  [world |-> World(Page),
                   socket |-> Called("setState", <<Pair(key, value)>>, options)],
                  key, value, OptionsOr(options, SetDefaults)))

\* a call of ReactExpress.batchUpdate(updates, options) or of
\* ReactExpress.batchUpdate(updates) by the page's scripts
ReactExpress_batchUpdate(updates, options) ==
    /\ Settable(updates)
    /\ Applied(ReactExpress_batchUpdateIn(
                  [world |-> World(Page),
                   socket |-> Called("batchUpdate", updates, options)],
                  updates, OptionsOr(options, BatchDefaults)))

(***************************************************************************)
(* The user on the checkboxes, and effects.                                *)
(***************************************************************************)
\* document.querySelectorAll('input[type="checkbox"][data-react-state="key"]')
Checkboxes(key) == SelectSeq(Matching(DocOrder, key), IsCheckbox)

\* checkboxes.filter(cb => cb.checked).map(cb => cb.value)
CheckedValues(boxes, checked) ==
    LET on == SelectSeq(boxes, LAMBDA e : checked[e])
    IN Arr([i \in 1..Len(on) |-> ValueAttr(on[i])])

\* the value the change listener of a checkbox sets: the checked values of the
\* group, or element.checked for a lone checkbox without a value attribute
ChangedValue(e, checked) ==
    IF Len(Checkboxes(KeyOf(e))) > 1 \/ ValueAttr(e) # ""
    THEN CheckedValues(Checkboxes(KeyOf(e)), checked)
    ELSE Bool(checked[e])

\* the user clicks a checkbox: the browser flips its checkedness and dispatches
\* a change event to it, which runs the listener _scanForStateBindings attached,
\* if it attached one
changeEvent(e) ==
    /\ microtasks = 0 /\ mutations = <<>>
    /\ IsCheckbox(e) /\ InDocument(e)
    /\ nToggles < MaxToggles
    /\ nToggles' = nToggles + 1
    /\ LET flipped == [elChecked EXCEPT ![e] = ~@]
       IN IF inputListeners[e] = 0
          THEN /\ elChecked' = flipped
               /\ UNCHANGED hmrVars
               /\ UNCHANGED <<stateBindings, busListeners, received, inputListeners,
                              elValue, inserted, observing, mutations, effect,
                              nInits, bindLog, auxVars, valueHist, setsInTurn, subFrom,
                              nSets, nBinds, vdomVars>>
          ELSE /\ _setBindingValueOn([Page EXCEPT !.elChecked = flipped], KeyOf(e),
                                     ChangedValue(e, flipped))
               /\ UNCHANGED <<store, socket>>

\* the radio buttons of a key, in document order
Radios(key) == SelectSeq(Matching(DocOrder, key), IsRadio)

\* document.querySelector('input[type="radio"][data-react-state="key"]:checked'),
\* and the value the change listener of a radio button sets from it
SelectedValue(key, checked) ==
    LET on == SelectSeq(Radios(key), LAMBDA e : checked[e])
    IN IF on = <<>> THEN Null ELSE Str(ValueAttr(on[1]))

\* the user clicks a radio button that is not checked: the browser checks it,
\* unchecks the other buttons of its group and dispatches a change event to
\* it, which runs the listener _scanForStateBindings attached, if it attached
\* one
radioChange(e) ==
    /\ microtasks = 0 /\ mutations = <<>>
    /\ IsRadio(e) /\ InDocument(e) /\ ~elChecked[e]
    /\ nToggles < MaxToggles
    /\ nToggles' = nToggles + 1
    /\ LET picked == [c \in Elements |->
                        IF IsRadio(c) /\ KeyOf(c) = KeyOf(e) THEN c = e
                        ELSE elChecked[c]]
       IN IF inputListeners[e] = 0
          THEN /\ elChecked' = picked
               /\ UNCHANGED hmrVars
               /\ UNCHANGED <<stateBindings, busListeners, received, inputListeners,
                              elValue, inserted, observing, mutations, effect,
                              nInits, bindLog, auxVars, valueHist, setsInTurn, subFrom,
                              nSets, nBinds, vdomVars>>
          ELSE /\ _setBindingValueOn([Page EXCEPT !.elChecked = picked], KeyOf(e),
                                     SelectedValue(KeyOf(e), picked))
               /\ UNCHANGED <<store, socket>>

\* the function useEffect returns: "if (cleanup) cleanup()", then the handler
\* is removed from the event bus
Unregistered(fx) ==
    LET cleaned == IF fx.cleanup # NoCleanup
                   THEN Append(fx.log, [kind |-> "cleanup", run |-> fx.cleanup])
                   ELSE fx.log
    IN [fx EXCEPT !.state = "off",
                  !.log = Append(cleaned, [kind |-> "unregister", run |-> fx.runs])]

\* the dependency lists of the effect, and the runs of effectFn that return a
\* cleanup function
EffectDeps == {{}, {"count"}, Keys}
EffectRuns == 1..(MaxSets + 1)

\* the number of sets made on a key so far
SetsOn(k) == IF valueHist[k] = <<>> THEN 0 ELSE Len(valueHist[k]) - 1
SetCounts == [k \in AllKeys |-> SetsOn(k)]

\* hooks.useEffect(callback, dependencies): the handler is added to the event
\* bus for every dependency and called once
useEffect(deps, returns) ==
    /\ effect.state = "unset"
    /\ effect' = handler([NoEffect EXCEPT !.state = "on", !.deps = deps,
                                          !.returns = returns,
                                          !.regAt = SetCounts])
    /\ UNCHANGED hmrVars
    /\ UNCHANGED <<stateBindings, busListeners, received, inputListeners, elValue,
                   elChecked, inserted, observing, mutations, nToggles, nInits,
                   bindLog, auxVars, valueHist, setsInTurn, subFrom, nSets, nBinds, vdomVars>>

\* the call of the function useEffect returned
unregisterEffect ==
    /\ effect.state = "on"
    /\ effect' = [Unregistered(effect) EXCEPT !.offAt = SetCounts]
    /\ UNCHANGED hmrVars
    /\ UNCHANGED <<stateBindings, busListeners, received, inputListeners, elValue,
                   elChecked, inserted, observing, mutations, nToggles, nInits,
                   bindLog, auxVars, valueHist, setsInTurn, subFrom, nSets, nBinds, vdomVars>>

MaxMemos == 2
MemoFactories == {"f1", "f2"}
MemoDeps == {<<>>, <<"count">>, <<"name">>, <<"count", "name">>}

\* memoizedValues after "if (!has(key)) set(key, factory())"
MemoEnsured(memo, f, key, bindings) ==
    IF key \in DOMAIN memo.values THEN memo
    ELSE [memo EXCEPT !.values = [k \in DOMAIN memo.values \cup {key} |->
                                    IF k = key THEN Factory(f, bindings)
                                    ELSE memo.values[k]],
                      !.invoked = Append(@, f)]

\* hooks.useMemo(factory, dependencies)
useMemo(f, deps) ==
    /\ Len(memoizedValues.calls) < MaxMemos
    /\ LET key == Join(deps)
           memo == MemoEnsured(memoizedValues, f, key, stateBindings)
       IN memoizedValues' =
            [memo EXCEPT !.listeners =
                            @ \o [i \in 1..Len(deps) |->
                                    [dep |-> deps[i], f |-> f, key |-> key]],
                         !.calls = Append(@, [f |-> f, deps |-> deps, key |-> key,
                                              returned |-> memo.values[key]])]
    /\ UNCHANGED hmrVars
    /\ UNCHANGED <<stateBindings, busListeners, received, inputListeners, elValue,
                   elChecked, inserted, observing, mutations, effect, nToggles,
                   nInits, bindLog, console, store, socket, server, vnodes, errorOverlay, valueHist,
                   setsInTurn, subFrom, nSets, nBinds, vdomVars>>

(***************************************************************************)
(* render calls of the page's scripts, and the flush microtask.            *)
(***************************************************************************)
Tree3 == El("div", NoProps, <<Str("a"), Str("b"), Str("c")>>)
Tree1 == El("div", NoProps, <<Str("a")>>)
BadTree == El("", NoProps, <<>>)
VNodes == {Str("x"), Tree3, Tree1, BadTree, raw("<b>r</b>")}
RenderContainers == {Elem("app"), Elem("side")}

\* trees that differ from another one in one leaf: a string among siblings, a
\* number, a string below a sibling element
TreeX == El("div", NoProps, <<Str("a"), Str("x"), Str("c")>>)
Count1 == El("p", NoProps, <<Num(1)>>)
Count2 == El("p", NoProps, <<Num(2)>>)
Nest1 == El("div", NoProps, <<El("p", NoProps, <<Str("a")>>),
                              El("p", NoProps, <<Str("b")>>)>>)
Nest2 == El("div", NoProps, <<El("p", NoProps, <<Str("a")>>),
                              El("p", NoProps, <<Str("c")>>)>>)
DiffVNodes == {Tree3, TreeX, Count1, Count2, Nest1, Nest2}

\* vdom.render(vnode, container)
render(vnode, container) ==
    /\ nRenders < MaxRenders
    /\ LET r == RenderQueued(Renderer, container, vnode)
       IN /\ queue' = r.queue
          /\ scheduled' = r.scheduled
          /\ microtasks' = r.microtasks
          /\ batch' = r.batch
          /\ nCalls' = r.calls
    /\ nRenders' = nRenders + 1
    /\ UNCHANGED hmrVars
    /\ UNCHANGED <<storeVars, trees, dom, commitLog, flushCount, flushed,
                   lastFlush>>

\* vdom.render(vnode, container, {sync: true})
renderSync(vnode, container) ==
    /\ nRenders < MaxRenders
    /\ LET f == _flush(QueueSet(queue, container, vnode, nCalls + 1))
       IN /\ trees' = f.trees
          /\ dom' = f.dom
          /\ commitLog' = f.log
          /\ flushCount' = f.flushes
          /\ flushed' = f.flushed
    /\ queue' = <<>>
    /\ scheduled' = FALSE
    /\ nCalls' = nCalls + 1
    /\ nRenders' = nRenders + 1
    /\ batch' = [batch EXCEPT ![container] =
                    Append(@, [vnode |-> vnode, call |-> nCalls + 1, sync |-> TRUE])]
    /\ UNCHANGED hmrVars
    /\ UNCHANGED <<storeVars, microtasks, lastFlush>>

EmptyBatch == [e \in Nodes |-> <<>>]
NoSets == [k \in AllKeys |-> <<>>]

\* the microtask "() => this._flush()"
flushMicrotask ==
    /\ microtasks > 0
    /\ microtasks' = microtasks - 1
    /\ LET f == _flush(queue)
       IN /\ trees' = f.trees
          /\ dom' = f.dom
          /\ commitLog' = f.log
          /\ flushCount' = f.flushes
          /\ flushed' = f.flushed
          /\ lastFlush' = [id |-> IF queue = <<>> THEN 0 ELSE f.flushes,
                           batch |-> batch, sets |-> setsInTurn, dom |-> f.dom]
    /\ queue' = <<>>
    /\ scheduled' = FALSE
    /\ batch' = EmptyBatch
    /\ setsInTurn' = NoSets
    /\ UNCHANGED hmrVars
    /\ UNCHANGED <<stateBindings, busListeners, received, inputListeners, elValue,
                   valueHist, subFrom, nSets, nBinds, nCalls, nRenders>>
    /\ UNCHANGED <<elChecked, inserted, observing, mutations, effect, nToggles,
                   nInits, bindLog, auxVars>>

(***************************************************************************)
(* The page under hot module replacement (src/client/hmr.js, the class     *)
(* HotModuleReplacement).  The body of the document is a tree of element   *)
(* nodes; an element is addressed by its path, the child indexes from the  *)
(* body down.  Markup (the text of a response, innerHTML) is represented   *)
(* by the tree it parses to: it holds the attributes and the text but none *)
(* of the properties a live control has (value typed, checkedness,         *)
(* selection).                                                             *)
(***************************************************************************)
MaxNotifications == 2
MaxUser == 1
MaxClock == 200
TickMs == 50
\* the delay of the debounce setTimeout
DebounceMs == 100

NoTimer == 0
NoPath == <<0>>
NoSel == <<-1, -1>>
BodyPath == <<>>

\* an element as the parser creates it from markup
Node(tag, root, name, type, key, text, kids) ==
    [tag |-> tag, root |-> root, name |-> name, type |-> type, key |-> key,
     text |-> text, processed |-> FALSE, value |-> "", checked |-> FALSE,
     sel |-> NoSel, kids |-> kids]

IsControl(n) == n.tag \in {"input", "select", "textarea"}
\* the input types setSelectionRange applies to
SelectableTypes == {"text", "search", "url", "tel", "password"}
HasSelection(n) ==
    \/ n.tag = "textarea"
    \/ n.tag = "input" /\ n.type \in SelectableTypes

\* a control as the parser creates it: no text typed, unchecked, caret at 0
FreshNode(n) ==
    [n EXCEPT !.value = "", !.checked = FALSE,
              !.sel = IF HasSelection(n) THEN <<0, 0>> ELSE NoSel]

\* parsing the serialisation of a list of nodes: the read of innerHTML followed
\* by the write of it
RECURSIVE Fresh(_)
Fresh(nodes) ==
    [i \in 1..Len(nodes) |-> [FreshNode(nodes[i]) EXCEPT !.kids = Fresh(nodes[i].kids)]]

Front(path) == SubSeq(path, 1, Len(path) - 1)
Last(path) == path[Len(path)]

\* the children of the element at a path (of the body for the empty path)
RECURSIVE KidsAt(_, _)
KidsAt(nodes, path) ==
    IF path = <<>> THEN nodes ELSE KidsAt(nodes[Head(path)].kids, Tail(path))

NodeAt(nodes, path) == KidsAt(nodes, Front(path))[Last(path)]

RECURSIVE SetKidsAt(_, _, _)
SetKidsAt(nodes, path, kids) ==
    IF path = <<>> THEN kids
    ELSE [nodes EXCEPT ![Head(path)].kids = SetKidsAt(@, Tail(path), kids)]

SetNodeAt(nodes, path, node) ==
    SetKidsAt(nodes, Front(path),
              [KidsAt(nodes, Front(path)) EXCEPT ![Last(path)] = node])

\* the paths of the elements under a list of nodes, in document order
RECURSIVE PathsFrom(_, _, _)
PathsFrom(nodes, i, prefix) ==
    IF i > Len(nodes) THEN <<>>
    ELSE <<Append(prefix, i)>>
         \o PathsFrom(nodes[i].kids, 1, Append(prefix, i))
         \o PathsFrom(nodes, i + 1, prefix)

AllPaths(nodes) == PathsFrom(nodes, 1, <<>>)

\* querySelectorAll and querySelector for a selector given as a predicate
querySelectorAll(nodes, Matches(_)) ==
    SelectSeq(AllPaths(nodes), LAMBDA p : Matches(NodeAt(nodes, p)))

FirstOr(paths, none) == IF paths = <<>> THEN none ELSE paths[1]

querySelector(nodes, Matches(_)) == FirstOr(querySelectorAll(nodes, Matches), NoPath)

IsPrefix(p, q) == Len(p) <= Len(q) /\ SubSeq(q, 1, Len(p)) = p

(***************************************************************************)
(* The templates the placeholder endpoint can render for the route.        *)
(***************************************************************************)
StateSpan(text) == Node("span", FALSE, "", "", "count", text, <<>>)
Input(name, type) == Node("input", FALSE, name, type, "", "", <<>>)
Script == Node("script", FALSE, "", "", "", "", <<>>)

\* a page with an explicit root marker
PageRoot ==
    <<Node("div", TRUE, "", "", "", "",
           <<StateSpan("0"), Input("q", "text"), Script>>)>>
\* a page with a <main>, in which the control q has become a checkbox
PageMain ==
    <<Node("main", FALSE, "", "", "", "",
           <<StateSpan("1"), Input("q", "checkbox"), Input("r", "text")>>)>>
\* a page with neither
PageBare == <<StateSpan("2"), Input("q", "text")>>
\* a page with a group of checkboxes that share their name
PageGroup ==
    <<Node("div", TRUE, "", "", "", "",
           <<Input("opt", "checkbox"), Input("opt", "checkbox")>>)>>

Pages == {PageRoot, PageMain, PageBare, PageGroup}

\* what fetch can settle with: a rejection, or a response.  The placeholder
\* endpoint answers 404 with an empty body when the template fails to render
FetchFailed == [kind |-> "rejected", ok |-> FALSE, status |-> 0, body |-> <<>>]
HttpResponse(status, body) ==
    [kind |-> "response", ok |-> status = 200, status |-> status, body |-> body]
Responses ==
    {FetchFailed, HttpResponse(404, <<>>)} \cup {HttpResponse(200, p) : p \in Pages}

(***************************************************************************)
(* The steps of processUpdate after the response text has arrived.  They   *)
(* run on a context: the document, the focus and scroll of the window, the *)
(* locals of processUpdate, and what the call has logged and dispatched.   *)
(***************************************************************************)
HasKey(n) == n.key # ""
IsRootMarker(n) == n.root
IsMain(n) == n.tag = "main"
IsScript(n) == n.tag = "script"

Indexes(s) == [i \in 1..Len(s) |-> i]

\* captureStateValues(): a Map from key to textContent; a key met again keeps
\* its place and takes the later text
captureStateValues(doc) ==
    LET ps == querySelectorAll(doc, HasKey)
        keyAt(i) == NodeAt(doc, ps[i]).key
        firsts == SelectSeq(Indexes(ps), LAMBDA i : \A j \in 1..(i - 1) : keyAt(j) # keyAt(i))
        lastOf(i) == CHOOSE j \in 1..Len(ps) :
                        /\ keyAt(j) = keyAt(i)
                        /\ \A m \in (j + 1)..Len(ps) : keyAt(m) # keyAt(i)
    IN [x \in 1..Len(firsts) |->
          [key |-> keyAt(firsts[x]), text |-> NodeAt(doc, ps[lastOf(firsts[x])]).text]]

\* captureFormStates(): one entry per control, in document order
FormState(n) ==
    [tag |-> n.tag, name |-> n.name, value |-> n.value, type |-> n.type,
     checked |-> n.checked, sel |-> n.sel]

captureFormStates(doc) ==
    LET ps == querySelectorAll(doc, IsControl)
    IN [i \in 1..Len(ps) |-> FormState(NodeAt(doc, ps[i]))]

\* captureFocusAndScroll(): a selector by name for the focused element, if any
NoSelector == [tag |-> "", name |-> ""]

captureFocusAndScroll(doc, active, scroll) ==
    LET focused == active # NoPath
        n == NodeAt(doc, active)
    IN [selector |-> IF focused /\ n.name # ""
                     THEN [tag |-> n.tag, name |-> n.name] ELSE NoSelector,
        sel |-> IF focused THEN n.sel ELSE NoSel,
        scrollY |-> scroll]

\* root.querySelector('[data-react-root]') || root.querySelector('main')
MarkedRoot(nodes) ==
    FirstOr(querySelectorAll(nodes, IsRootMarker),
            FirstOr(querySelectorAll(nodes, IsMain), NoPath))

\* getRootContainer(document): the path of the root container of the live page
getRootContainer(doc) ==
    IF MarkedRoot(doc) # NoPath THEN MarkedRoot(doc) ELSE BodyPath

\* the innerHTML of getRootContainer(temp), temp a detached <html> element
\* holding the parsed response: without a marked root in it the container is
\* temp.ownerDocument.body, the body of the live document
NextInnerHTML(temp, doc) ==
    IF MarkedRoot(temp) # NoPath THEN Fresh(KidsAt(temp, MarkedRoot(temp)))
    ELSE Fresh(doc)

\* mergeContent(oldContainer, newContainer)
mergeContent(doc, container, html) == SetKidsAt(doc, container, html)

\* the focus after the children of the container have been replaced
FocusAfterMerge(active, container) ==
    IF active # NoPath /\ IsPrefix(container, active) /\ Len(active) > Len(container)
    THEN NoPath ELSE active

\* "const el = document.querySelector(...); if (el) el.textContent = value"
RestoreText(doc, entry) ==
    LET path == querySelector(doc, LAMBDA n : n.key = entry.key)
    IN IF path = NoPath THEN doc
       ELSE SetNodeAt(doc, path,
                      [NodeAt(doc, path) EXCEPT !.text = entry.text, !.kids = <<>>])

\* restoreStateValues(stateValues)
RECURSIVE restoreStateValues(_, _, _)
restoreStateValues(doc, stateValues, i) ==
    IF i > Len(stateValues) THEN doc
    ELSE restoreStateValues(RestoreText(doc, stateValues[i]), stateValues, i + 1)

TextLength(text) == IF text = "" THEN 0 ELSE 3

\* "matchingInput.value = state.value; matchingInput.checked = state.checked"
WithFormState(n, state) ==
    [n EXCEPT !.value = state.value, !.checked = state.checked,
              !.sel = IF HasSelection(n)
                      THEN <<TextLength(state.value), TextLength(state.value)>>
                      ELSE NoSel]

\* one round of the forEach of restoreFormStates on [doc, threw]: setSelectionRange
\* throws InvalidStateError on an input whose type has no selection
RestoreOne(st, state) ==
    LET path == querySelector(st.doc,
                    LAMBDA n : n.tag = state.tag /\ n.name = state.name /\ n.name # "")
        set == WithFormState(NodeAt(st.doc, path), state)
    IN IF path = NoPath THEN st
       ELSE IF state.type \notin {"text", "textarea"}
       THEN [doc |-> SetNodeAt(st.doc, path, set), threw |-> FALSE]
       ELSE IF HasSelection(set)
       THEN [doc |-> SetNodeAt(st.doc, path, [set EXCEPT !.sel = state.sel]),
             threw |-> FALSE]
       ELSE [doc |-> SetNodeAt(st.doc, path, set), threw |-> TRUE]

\* restoreFormStates(formStates): the forEach ends at the first throw
RECURSIVE restoreFormStates(_, _, _)
restoreFormStates(st, formStates, i) ==
    IF i > Len(formStates) \/ st.threw THEN st
    ELSE restoreFormStates(RestoreOne(st, formStates[i]), formStates, i + 1)

\* restoreFocusAndScroll(ctx) on [doc, active, scrollY]: what focus() or
\* setSelectionRange throws is caught
restoreFocusAndScroll(doc, active, focus) ==
    LET path == querySelector(doc,
                    LAMBDA n : n.tag = focus.selector.tag /\ n.name = focus.selector.name)
        n == NodeAt(doc, path)
    IN IF focus.selector = NoSelector \/ path = NoPath
       THEN [doc |-> doc, active |-> active, scrollY |-> focus.scrollY]
       ELSE [doc |-> IF focus.sel # NoSel /\ HasSelection(n)
                     THEN SetNodeAt(doc, path, [n EXCEPT !.sel = focus.sel])
                     ELSE doc,
             active |-> path, scrollY |-> focus.scrollY]

\* processScripts(container): every script not yet processed is replaced by a
\* copy marked data-processed
RECURSIVE MarkScripts(_)
MarkScripts(nodes) ==
    [i \in 1..Len(nodes) |->
       IF IsScript(nodes[i]) THEN [nodes[i] EXCEPT !.processed = TRUE]
       ELSE [nodes[i] EXCEPT !.kids = MarkScripts(nodes[i].kids)]]

processScripts(doc, container) ==
    SetKidsAt(doc, container, MarkScripts(KidsAt(doc, container)))

(***************************************************************************)
(* processUpdate, from "const temp = document.createElement('html')" on.   *)
(***************************************************************************)
\* a processUpdate that replaces the content before it captures the form states
StepsReplaceFirst ==
    <<"captureStateValues", "getRootContainer", "mergeContent",
      "captureFormStates", "captureFocusAndScroll",
      "restoreStateValues", "restoreFormStates", "restoreFocusAndScroll",
      "processScripts", "processStyles",
      "initializeState", "initializeComponents", "dispatchUpdateEvent">>

\* the statements of processUpdate after the two awaits, in program order
ProcessUpdateSteps ==
    <<"captureStateValues", "captureFormStates", "captureFocusAndScroll",
      "getRootContainer", "mergeContent",
      "restoreStateValues", "restoreFormStates", "restoreFocusAndScroll",
      "processScripts", "processStyles",
      "initializeState", "initializeComponents", "dispatchUpdateEvent">>

\* whether initializeState / initializeComponents throw in a cycle
ReinitOutcomes == {"ok", "throws"}

\* the context a cycle starts its synchronous part with
Context(c) ==
    [doc |-> liveDocument, active |-> activeElement, scrollY |-> scrollY,
     temp |-> Fresh(cycles[c].response.body),
     stateValues |-> <<>>, formStates |-> <<>>,
     focus |-> [selector |-> NoSelector, sel |-> NoSel, scrollY |-> 0],
     container |-> BodyPath, html |-> <<>>, merged |-> <<>>,
     log |-> stepLog[c], threw |-> FALSE,
     stamp |-> styleStamp, overlay |-> overlay, reinits |-> reinits,
     events |-> events]

\* dispatchUpdateEvent(success)
dispatchUpdateEvent(x, c, success) ==
    [x EXCEPT !.events = Append(@, [cycle |-> c, success |-> success])]

\* the call of a re-initialiser inside its try/catch: what it throws is logged
\* to the overlay and goes no further
Reinitialized(x, c, outcome, phase) ==
    [x EXCEPT !.reinits = @ + 1,
              !.overlay = IF outcome = "throws"
                          THEN Append(@, [type |-> "hmr-init", phase |-> phase, cycle |-> c])
                          ELSE @]

AfterRestoreForms(x, st) == [x EXCEPT !.doc = st.doc, !.threw = st.threw]

AfterRestoreFocus(x, r) ==
    [x EXCEPT !.doc = r.doc, !.active = r.active, !.scrollY = r.scrollY]

\* one statement of processUpdate
ApplyStep(step, x, c, outcome) ==
    CASE step = "captureStateValues" ->
           [x EXCEPT !.stateValues = captureStateValues(x.doc)]
      [] step = "captureFormStates" ->
           [x EXCEPT !.formStates = captureFormStates(x.doc)]
      [] step = "captureFocusAndScroll" ->
           [x EXCEPT !.focus = captureFocusAndScroll(x.doc, x.active, x.scrollY)]
      [] step = "getRootContainer" ->
           [x EXCEPT !.container = getRootContainer(x.doc),
                     !.html = NextInnerHTML(x.temp, x.doc)]
      [] step = "mergeContent" ->
           [x EXCEPT !.doc = mergeContent(x.doc, x.container, x.html),
                     !.merged = mergeContent(x.doc, x.container, x.html),
                     !.active = FocusAfterMerge(x.active, x.container)]
      [] step = "restoreStateValues" ->
           [x EXCEPT !.doc = restoreStateValues(x.doc, x.stateValues, 1)]
      [] step = "restoreFormStates" ->
           AfterRestoreForms(x, restoreFormStates([doc |-> x.doc, threw |-> FALSE],
                                                  x.formStates, 1))
      [] step = "restoreFocusAndScroll" ->
           AfterRestoreFocus(x, restoreFocusAndScroll(x.doc, x.active, x.focus))
      [] step = "processScripts" ->
           [x EXCEPT !.doc = processScripts(x.doc, x.container)]
      [] step = "processStyles" -> [x EXCEPT !.stamp = clock]
      [] step = "initializeState" -> Reinitialized(x, c, outcome, "state")
      [] step = "initializeComponents" -> Reinitialized(x, c, outcome, "components")
      [] step = "dispatchUpdateEvent" -> dispatchUpdateEvent(x, c, TRUE)

Logged(x, step) == [x EXCEPT !.log = Append(@, step)]

\* the statements run in order until one throws
RECURSIVE RunSteps(_, _, _, _)
RunSteps(steps, x, c, outcome) ==
    IF steps = <<>> \/ x.threw THEN x
    ELSE RunSteps(Tail(steps), ApplyStep(Head(steps), Logged(x, Head(steps)), c, outcome),
                  c, outcome)

\* a handleUpdateError that logs and dispatches nothing
handleUpdateErrorSilent(x, c) ==
    [x EXCEPT !.log = @ \o <<"handleUpdateError", "dispatchUpdateEvent">>]

\* handleUpdateError(error): logged to the overlay, then dispatchUpdateEvent(false)
handleUpdateError(x, c) ==
    dispatchUpdateEvent(
        [x EXCEPT !.overlay = Append(@, [type |-> "hmr", phase |-> "", cycle |-> c]),
                  !.log = @ \o <<"handleUpdateError", "dispatchUpdateEvent">>],
        c, FALSE)

\* "try { await this.processUpdate() } catch (error) { this.handleUpdateError(error) }"
Settled(x, c) == IF x.threw THEN handleUpdateError(x, c) ELSE x

(***************************************************************************)
(* The hmr:update handler, its timer, and the two awaits of processUpdate. *)
(***************************************************************************)
NoResponse == [kind |-> "none", ok |-> FALSE, status |-> 0, body |-> <<>>]
CycleIds == 1..MaxNotifications

\* a clearTimeout that leaves the timer pending
clearTimeoutNoop(ts, id) == ts

clearTimeout(ts, id) == {t \in ts : t.id # id}

setTimeout(ts, id, due) == ts \cup {[id |-> id, due |-> due]}

Min(S) == CHOOSE x \in S : \A y \in S : x <= y

\* socket.on("hmr:update"): the pending timer is cleared and a new one is set
hmrUpdate ==
    /\ Len(notifications) < MaxNotifications
    /\ notifications' = Append(notifications, clock)
    /\ timers' = setTimeout(clearTimeout(timers, _debounceTimer),
                            Len(notifications) + 1, clock + DebounceMs)
    /\ _debounceTimer' = Len(notifications) + 1
    /\ UNCHANGED <<storeVars, vdomVars>>
    /\ UNCHANGED <<clock, cycles, stepLog, events, overlay, liveDocument, activeElement,
                   scrollY, styleStamp, reinits, reloads, replaced,
                   nUser>>

\* time passes, up to the next deadline of a timer
tick ==
    /\ clock < MaxClock
    /\ \A t \in timers : t.due > clock
    /\ clock' = Min({clock + TickMs} \cup {t.due : t \in timers})
    /\ UNCHANGED <<storeVars, vdomVars>>
    /\ UNCHANGED <<timers, _debounceTimer, notifications, cycles, stepLog, events, overlay,
                   liveDocument, activeElement, scrollY, styleStamp, reinits,
                   reloads, replaced, nUser>>

\* the timer callback starts: processUpdate calls fetch and awaits it
timerFires(t) ==
    /\ t \in timers
    /\ t.due <= clock
    /\ timers' = timers \ {t}
    /\ cycles' = Append(cycles, [pc |-> "fetch", startedAt |-> clock,
                                 response |-> NoResponse,
                                 pending |-> {c \in 1..Len(cycles) :
                                                cycles[c].pc = "fetch"}])
    /\ stepLog' = Append(stepLog, <<"fetch">>)
    /\ UNCHANGED <<storeVars, vdomVars>>
    /\ UNCHANGED <<_debounceTimer, clock, notifications, events, overlay,
                   liveDocument, activeElement, scrollY, styleStamp, reinits,
                   reloads, replaced, nUser>>

\* the progress of a cycle when "await fetch(...)" settles: a rejection ends
\* processUpdate, a response of any status takes it to "await response.text()"
FetchSettled(c, response) ==
    /\ c <= Len(cycles)
    /\ cycles[c].pc = "fetch"
    /\ cycles' = [cycles EXCEPT
                    ![c].pc = IF response.kind = "rejected" THEN "done" ELSE "text",
                    ![c].response = response]

\* "await fetch(...)" settles: a rejection goes to the catch of the timer callback
fetchSettles(c, response) ==
    /\ FetchSettled(c, response)
    /\ IF response.kind = "rejected"
       THEN LET x == handleUpdateError(Context(c), c)
            IN /\ stepLog' = [stepLog EXCEPT ![c] = x.log]
               /\ events' = x.events
               /\ overlay' = x.overlay
       ELSE /\ stepLog' = [stepLog EXCEPT ![c] = Append(@, "text")]
            /\ UNCHANGED <<events, overlay>>
    /\ UNCHANGED <<storeVars, vdomVars>>
    /\ UNCHANGED <<timers, _debounceTimer, clock, notifications, liveDocument,
                   activeElement, scrollY, styleStamp, reinits, reloads, replaced,
                   nUser>>

\* the progress of a cycle when "await response.text()" settles: the rest of
\* processUpdate, and handleUpdateError if it throws, run to the end
TextSettled(c) ==
    /\ c <= Len(cycles)
    /\ cycles[c].pc = "text"
    /\ cycles' = [cycles EXCEPT ![c].pc = "done"]

\* what a call of processUpdate that got to mergeContent saw and did
Replacement(x, c) ==
    [cycle |-> c, before |-> liveDocument, active |-> activeElement,
     temp |-> x.temp, container |-> x.container, html |-> x.html,
     merged |-> x.merged, after |-> x.doc, afterActive |-> x.active,
     full |-> InSeq("restoreFocusAndScroll", x.log)]

\* "await response.text()" settles and the rest of processUpdate runs
textSettles(c, outcome) ==
    /\ TextSettled(c)
    /\ LET x == Settled(RunSteps(ProcessUpdateSteps, Context(c), c, outcome), c)
       IN /\ stepLog' = [stepLog EXCEPT ![c] = x.log]
          /\ events' = x.events
          /\ overlay' = x.overlay
          /\ liveDocument' = x.doc
          /\ activeElement' = x.active
          /\ scrollY' = x.scrollY
          /\ styleStamp' = x.stamp
          /\ reinits' = x.reinits
          /\ replaced' = IF InSeq("mergeContent", x.log)
                         THEN Append(replaced, Replacement(x, c))
                         ELSE replaced
    /\ UNCHANGED <<storeVars, vdomVars>>
    /\ UNCHANGED <<timers, _debounceTimer, clock, notifications, reloads, nUser>>

(***************************************************************************)
(* The user on the page.                                                   *)
(***************************************************************************)
TypedText == "abc"
TypedSel == <<1, 2>>
ScrolledTo == 40

\* the user types into a text control and selects part of the text
userType(path) ==
    /\ nUser < MaxUser
    /\ HasSelection(NodeAt(liveDocument, path))
    /\ liveDocument' = SetNodeAt(liveDocument, path,
                          [NodeAt(liveDocument, path) EXCEPT !.value = TypedText,
                                                             !.sel = TypedSel])
    /\ activeElement' = path
    /\ nUser' = nUser + 1
    /\ UNCHANGED <<storeVars, vdomVars>>
    /\ UNCHANGED <<timers, _debounceTimer, clock, notifications, cycles, stepLog, events,
                   overlay, scrollY, styleStamp, reinits, reloads, replaced>>

\* the user clicks a checkbox
userToggle(path) ==
    /\ nUser < MaxUser
    /\ NodeAt(liveDocument, path).type = "checkbox"
    /\ liveDocument' = SetNodeAt(liveDocument, path,
                          [NodeAt(liveDocument, path) EXCEPT !.checked = ~@])
    /\ activeElement' = path
    /\ nUser' = nUser + 1
    /\ UNCHANGED <<storeVars, vdomVars>>
    /\ UNCHANGED <<timers, _debounceTimer, clock, notifications, cycles, stepLog, events,
                   overlay, scrollY, styleStamp, reinits, reloads, replaced>>

\* the user scrolls the window
userScroll ==
    /\ nUser < MaxUser
    /\ scrollY = 0
    /\ scrollY' = ScrolledTo
    /\ nUser' = nUser + 1
    /\ UNCHANGED <<storeVars, vdomVars>>
    /\ UNCHANGED <<timers, _debounceTimer, clock, notifications, cycles, stepLog, events,
                   overlay, liveDocument, activeElement, styleStamp, reinits,
                   reloads, replaced>>

(***************************************************************************)
(* The error overlay (src/client/error-overlay.js).                        *)
(***************************************************************************)
MaxLogs == 3
MAX_ERRORS == 200

\* an Error object; stack is the lines of its stack trace
Err(name, message, stack) ==
    [t |-> "error", name |-> name, message |-> message, stack |-> stack]

\* the overlay as constructed; dev is window.ReactExpress.__DEV__, and logs
\* counts the log calls made in developer mode
NoOverlay ==
    [errors |-> <<>>, index |-> -1, visible |-> FALSE, dev |-> FALSE, logs |-> 0]

\* .filter(line => line.trim()).map(line => line.replace(/^\s*at\s+/, '  → '))
\* .join('\n') over the lines of a stack trace
RECURSIVE CleanStack(_)
CleanStack(lines) ==
    IF lines = <<>> THEN ""
    ELSE LET rest == CleanStack(Tail(lines))
             line == IF Head(lines) = "at f" THEN "  -> f" ELSE Head(lines)
         IN IF Head(lines) = "" THEN rest
            ELSE IF rest = "" THEN line
            ELSE line \o "\n" \o rest

\* formatError(err)
formatError(err) ==
    CASE err.t = "null" -> "Unknown error"
      [] err.t = "str" -> IF err.s = "" THEN "Unknown error" ELSE err.s
      [] OTHER -> (IF err.name = "" THEN "Error" ELSE err.name) \o ": "
                  \o err.message \o "\n\n" \o CleanStack(err.stack)

\* log that pushes every error, whatever the last entry is
LogCallAlways(ov, error, meta) ==
    LET pushed == Append(ov.errors, [error |-> error, meta |-> meta,
                                     time |-> ov.logs + 1])
        kept == IF Len(pushed) > MAX_ERRORS THEN Tail(pushed) ELSE pushed
    IN [ov EXCEPT !.errors = kept, !.index = Len(kept) - 1, !.logs = @ + 1]

\* log(error, meta) in developer mode: an error whose formatted message is
\* that of the last entry refreshes that entry, any other is pushed and the
\* oldest entry dropped beyond MAX_ERRORS
LogCall(ov, error, meta) ==
    LET n == Len(ov.errors)
    IN IF n > 0 /\ formatError(ov.errors[n].error) = formatError(error)
       THEN [ov EXCEPT !.errors[n].meta = meta, !.errors[n].time = ov.logs + 1,
                       !.index = n - 1, !.logs = @ + 1]
       ELSE LogCallAlways(ov, error, meta)

\* the overlay's variable is the only one the step changes
OverlayOnly ==
    UNCHANGED <<stateBindings, busListeners, received, inputListeners, elValue,
                elChecked, inserted, observing, mutations, effect, nToggles,
                nInits, bindLog, memoizedValues, console, store, socket, server,
                vnodes, valueHist, setsInTurn, subFrom, nSets, nBinds, vdomVars,
                hmrVars>>

\* the errors and the meta objects the page logs
LoggedErrors ==
    {Null, Str("boom"), Str("Error: boom\n\n"),
     Err("", "boom", <<>>), Err("Error", "boom", <<"">>),
     Err("TypeError", "boom", <<"at f">>), Err("TypeError", "boom", <<"", "at f">>)}
Metas == {"null", "hmr"}

\* window.ReactExpress.__DEV__ = true
enableDev ==
    /\ ~errorOverlay.dev
    /\ errorOverlay' = [errorOverlay EXCEPT !.dev = TRUE]
    /\ OverlayOnly

\* ErrorOverlay.log(error, meta)
ErrorOverlay_log(error, meta) ==
    /\ errorOverlay.logs < MaxLogs
    /\ errorOverlay' = IF errorOverlay.dev THEN LogCall(errorOverlay, error, meta)
                       ELSE errorOverlay
    /\ OverlayOnly

\* ErrorOverlay.show()
ErrorOverlay_show ==
    /\ errorOverlay.dev
    /\ errorOverlay' = [errorOverlay EXCEPT !.visible = TRUE]
    /\ OverlayOnly

\* ErrorOverlay.hide()
ErrorOverlay_hide ==
    /\ errorOverlay' = [errorOverlay EXCEPT !.visible = FALSE]
    /\ OverlayOnly

\* ErrorOverlay.clear()
ErrorOverlay_clear ==
    /\ errorOverlay' = [errorOverlay EXCEPT !.errors = <<>>, !.index = -1,
                                            !.visible = FALSE]
    /\ OverlayOnly

\* ErrorOverlay.next()
ErrorOverlay_next ==
    /\ errorOverlay.errors # <<>>
    /\ errorOverlay' = [errorOverlay EXCEPT
                          !.index = (@ + 1) % Len(errorOverlay.errors)]
    /\ OverlayOnly

\* ErrorOverlay.prev()
ErrorOverlay_prev ==
    /\ errorOverlay.errors # <<>>
    /\ errorOverlay' = [errorOverlay EXCEPT
                          !.index = (@ - 1 + Len(errorOverlay.errors))
                                       % Len(errorOverlay.errors)]
    /\ OverlayOnly

(***************************************************************************)
(* The file watcher of the server plugin (src/index.ts, src/dist/index.js) *)
(* and its hmr:update broadcasts.                                          *)
(***************************************************************************)
MaxChanges == 3
MaxServerClock == 300
ServerTickMs == 50
\* the delay of the server's setTimeout
ServerDebounceMs == 100

\* the two builds of the plugin in the repository: the TypeScript source and
\* the compiled module
Builds == {"index.ts", "dist/index.js"}
\* the view files that change
ViewFiles == {"views/a.html", "views/b.html"}

\* no server yet: reactExpress(options) has not set the middleware up
NoServer ==
    [build |-> "none", hmrTimer |-> NoTimer, lastPath |-> "", clock |-> 0,
     changes |-> <<>>, broadcasts |-> <<>>, responses |-> <<>>,
     state |-> [k \in SyncKeys |-> Undefined], taken |-> 0,
     toPage |-> <<>>, toPeer |-> <<>>,
     peer |-> [got |-> 0, state |-> [k \in SyncKeys |-> Undefined]]]

\* io?.emit('hmr:update', { path, timestamp }); after is the number of change
\* events so far
Broadcast(sv, filepath) ==
    [sv EXCEPT !.broadcasts = Append(@, [path |-> filepath, at |-> sv.clock,
                                         after |-> Len(sv.changes)])]

\* the change handler of src/index.ts: emit at once
ChangedTs(sv, filepath) == Broadcast(sv, filepath)

\* the change handler of src/dist/index.js: lastPath = filepath, the pending
\* timer is cleared and a new one is set
ChangedDist(sv, filepath) ==
    [sv EXCEPT !.lastPath = filepath, !.hmrTimer = sv.clock + ServerDebounceMs]

\* the server's variables are the only ones the step changes
ServerOnly ==
    UNCHANGED <<stateBindings, busListeners, received, inputListeners, elValue,
                elChecked, inserted, observing, mutations, effect, nToggles,
                nInits, bindLog, memoizedValues, console, store, socket, vnodes,
                errorOverlay, valueHist, setsInTurn, subFrom, nSets, nBinds,
                vdomVars, hmrVars>>

\* reactExpress({ hmr: true }) of one of the builds sets the watcher up
reactExpress(build) ==
    /\ server.build = "none"
    /\ server' = [server EXCEPT !.build = build]
    /\ ServerOnly

\* the handlers io.on('connection') registers for a socket, on a message of
\* that socket: state.setState(key, value) for state:update, whose
\* notifySubscribers emits state:update to every connected socket; no handler
\* is registered for any other event
ServerHandled(sv, msg) ==
    IF msg.event = "state:update"
    THEN [sv EXCEPT !.state[msg.updates[1].key] = msg.updates[1].value,
                    !.toPage = Append(@, msg),
                    !.toPeer = Append(@, msg)]
    ELSE sv

\* the server gets the next message the page's socket has emitted
serverReceives ==
    /\ server.taken < Len(socket.emitted)
    /\ server' = [ServerHandled(server, socket.emitted[server.taken + 1])
                    EXCEPT !.taken = @ + 1]
    /\ ServerOnly

RECURSIVE PeerSet(_, _)
\* the handlers initState registers on the socket of the other client: the
\* pairs of the message are set one after the other, and nothing is emitted
PeerSet(state, updates) ==
    IF updates = <<>> THEN state
    ELSE PeerSet([state EXCEPT ![Head(updates).key] = Head(updates).value],
                 Tail(updates))

\* the other client gets the next message the server has emitted to it
peerReceives ==
    /\ server.peer.got < Len(server.toPeer)
    /\ server' = [server EXCEPT
                    !.peer = [got |-> @.got + 1,
                              state |-> PeerSet(@.state,
                                                server.toPeer[@.got + 1].updates)]]
    /\ ServerOnly

\* the page gets the next message the server has emitted to it
pageReceives ==
    /\ Len(socket.got) < Len(server.toPage)
    /\ receive(server.toPage[Len(socket.got) + 1])

\* the server's timer is due
TimerDue == server.hmrTimer # NoTimer /\ server.hmrTimer <= server.clock

\* watcher.on('change', filepath => ...); a timer that is due runs first
watcherChange(filepath) ==
    /\ server.build # "none"
    /\ Len(server.changes) < MaxChanges
    /\ ~TimerDue
    /\ LET sv == [server EXCEPT !.changes = Append(@, [path |-> filepath,
                                                       at |-> server.clock])]
       IN server' = IF server.build = "index.ts" THEN ChangedTs(sv, filepath)
                    ELSE ChangedDist(sv, filepath)
    /\ ServerOnly

\* the callback of the server's setTimeout runs
hmrTimerFires ==
    /\ TimerDue
    /\ server' = [Broadcast(server, server.lastPath) EXCEPT !.hmrTimer = NoTimer]
    /\ ServerOnly

\* time passes on the server, no further than the next timer
serverTick ==
    /\ server.build # "none"
    /\ server.clock < MaxServerClock
    /\ ~TimerDue
    /\ server' = [server EXCEPT !.clock = @ + ServerTickMs]
    /\ ServerOnly

(***************************************************************************)
(* The placeholder endpoint of the server plugin,                          *)
(* GET /__react-express/placeholder/*.                                     *)
(***************************************************************************)
MaxRequests == 2

\* a file path: absolute or relative, and its segments
FilePath(abs, segs) == [abs |-> abs, segs |-> segs]
\* path.resolve(viewsDir)
ViewsDir == FilePath(TRUE, <<"srv", "views">>)
\* the template files on the server's disk
TemplateFiles ==
    {FilePath(TRUE, <<"srv", "views", "a.ejs">>),
     FilePath(TRUE, <<"srv", "secret.ejs">>)}
NoFile == FilePath(FALSE, <<>>)

\* segments done with "." dropped and ".." taking back the segment before it;
\* a ".." with nothing before it stays in a relative path and is dropped at
\* the root
RECURSIVE Segments(_, _, _)
Segments(done, rest, abs) ==
    IF rest = <<>> THEN done
    ELSE LET s == Head(rest)
         IN Segments(CASE s = "." -> done
                       [] s = ".." /\ done # <<>> /\ done[Len(done)] # ".." ->
                            SubSeq(done, 1, Len(done) - 1)
                       [] s = ".." /\ abs -> done
                       [] OTHER -> Append(done, s),
                     Tail(rest), abs)

\* path.normalize(p)
Normalize(p) == FilePath(p.abs, Segments(<<>>, p.segs, p.abs))
\* path.join(a, b): the segments of b follow those of a, wherever b begins
PathJoin(a, b) == Normalize(FilePath(a.abs, a.segs \o b.segs))
\* path.resolve(a, b) with a absolute: an absolute b stands for itself
PathResolve(a, b) == IF b.abs THEN Normalize(b) ELSE PathJoin(a, b)
\* full.startsWith(dir + path.sep)
StartsWithDir(full, dir) ==
    /\ Len(full.segs) > Len(dir.segs)
    /\ SubSeq(full.segs, 1, Len(dir.segs)) = dir.segs

\* req.path.replace('/__react-express/placeholder', '').replace(/^\//, ''):
\* one leading slash is taken off, so a request with two leaves an absolute path
RawPath(req) == FilePath(req.slashes = 2, req.segs)

\* app.render(name, options, callback): Express looks the view up at
\* path.resolve(views, name) and calls back with its html, or with an error
\* when there is no such file
Rendered(name) ==
    LET loc == PathResolve(ViewsDir, name)
    IN IF loc \in TemplateFiles
       THEN [status |-> 200, rendered |-> loc]
       ELSE [status |-> 404, rendered |-> NoFile]

\* the check of src/dist/index.js: the joined path is the views directory or
\* lies under it
PreventsTraversal(rawPath) ==
    LET fullPath == PathJoin(ViewsDir, Normalize(rawPath))
    IN StartsWithDir(fullPath, ViewsDir) \/ fullPath = ViewsDir

\* the handler of src/dist/index.js
PlaceholderDist(rawPath) ==
    IF ~PreventsTraversal(rawPath) THEN [status |-> 400, rendered |-> NoFile]
    ELSE Rendered(Normalize(rawPath))

\* the handler of src/index.ts
PlaceholderTs(rawPath) == Rendered(rawPath)

\* the requests clients send
RequestSegments == {".", "..", "a.ejs", "secret.ejs", "srv"}
Requests ==
    {[slashes |-> n, segs |-> s] :
       n \in {1, 2},
       s \in {<<a>> : a \in RequestSegments}
             \cup {<<a, b>> : a, b \in RequestSegments}}

\* GET /__react-express/placeholder/* is answered
getPlaceholder(req) ==
    /\ server.build # "none"
    /\ Len(server.responses) < MaxRequests
    /\ LET answer == IF server.build = "index.ts" THEN PlaceholderTs(RawPath(req))
                     ELSE PlaceholderDist(RawPath(req))
       IN server' = [server EXCEPT !.responses =
                        Append(@, [request |-> req, status |-> answer.status,
                                   rendered |-> answer.rendered])]
    /\ ServerOnly

Range(s) == {s[i] : i \in 1..Len(s)}

\* the store and the renderer after construction
InitStore ==
    /\ stateBindings = [k \in AllKeys |-> NoBinding]
    /\ busListeners = [k \in AllKeys |-> <<>>]
    /\ received = [s \in Subscribers \cup Resetters |-> <<>>]
    /\ inputListeners = [e \in Nodes |-> 0]
    /\ elValue = [e \in Nodes |-> ""]
    /\ elChecked = [e \in Nodes |-> FALSE]
    /\ inserted = {}
    /\ observing = FALSE
    /\ mutations = <<>>
    /\ effect = NoEffect
    /\ nToggles = 0
    /\ nInits = 0
    /\ bindLog = <<>>
    /\ memoizedValues = NoMemo
    /\ console = <<>>
    /\ store = NoStore
    /\ socket = NoSocket
    /\ server = NoServer
    /\ vnodes = <<>>
    /\ errorOverlay = NoOverlay
    /\ queue = <<>>
    /\ scheduled = FALSE
    /\ microtasks = 0
    /\ trees = [e \in {} |-> Undefined]
    /\ dom = [e \in Nodes |->
                IF IsFormControl(e) THEN <<>> ELSE <<TextNode(SSRText)>>]
    /\ commitLog = <<>>
    /\ flushCount = 0
    /\ flushed = <<>>
    /\ batch = EmptyBatch
    /\ lastFlush = [id |-> 0, batch |-> EmptyBatch, sets |-> NoSets, dom |-> dom]
    /\ valueHist = [k \in AllKeys |-> <<>>]
    /\ setsInTurn = NoSets
    /\ subFrom = [s \in Subscribers \cup Resetters |-> -1]
    /\ nCalls = 0
    /\ nSets = 0
    /\ nRenders = 0
    /\ nBinds = 0

\* the HMR client after init(socket), on a page nobody has touched
InitIdle ==
    /\ timers = {}
    /\ _debounceTimer = NoTimer
    /\ clock = 0
    /\ notifications = <<>>
    /\ cycles = <<>>
    /\ stepLog = <<>>
    /\ events = <<>>
    /\ overlay = <<>>
    /\ activeElement = NoPath
    /\ scrollY = 0
    /\ styleStamp = 0
    /\ reinits = 0
    /\ reloads = 0
    /\ replaced = <<>>
    /\ nUser = 0

Init == InitStore /\ InitIdle /\ liveDocument = Fresh(PageRoot)

\* the page was served from any of the templates
InitHMR == InitStore /\ InitIdle /\ liveDocument \in {Fresh(p) : p \in Pages}

\* the state store driven by the page's scripts and the user
NextStore ==
    \/ \E k \in Keys : \E v \in InitialValues(k) : useState(k, v)
    \/ \E k \in Keys : \E v \in SetValues(k) : setState(k, v)
    \/ \E k \in UpdaterKeys : setStateUpdater(k)
    \/ \E s \in Subscribers : \E k \in SubscribesTo(s) : onStateChange(k, s)
    \/ \E e \in Elements, text \in InputTexts : inputEvent(e, text)
    \/ flushMicrotask

SpecStore == Init /\ [][NextStore]_vars

\* a form whose text field, checkbox group and radio buttons are bound by the
\* scan of useState, driven by the user and by set calls of the page's scripts
ControlKeys == {"count", GroupKey, RadioKey}
ControlInitial(k) == IF k = GroupKey THEN Arr(<<>>) ELSE Str("a")
ControlSets(k) == IF k = GroupKey THEN {Arr(<<"b">>)} ELSE {Str("b")}
NextControls ==
    \/ \E k \in ControlKeys : useState(k, ControlInitial(k))
    \/ \E k \in ControlKeys : \E v \in ControlSets(k) : setState(k, v)
    \/ \E e \in Elements, text \in InputTexts : inputEvent(e, text)
    \/ \E e \in Elements : changeEvent(e)
    \/ \E e \in Elements : radioChange(e)
    \/ flushMicrotask

SpecControls == Init /\ [][NextControls]_vars

\* a page bound by initializeState whose container is replaced by hot updates
\* while its scripts set the key of the replaced element
NextReplace ==
    \/ initializeState
    \/ hmrReplace
    \/ observerCallback
    \/ \E k \in {Markup[slot].key : slot \in ReplacedSlots} :
           \E v \in SetValues(k) : setState(k, v)
    \/ flushMicrotask

SpecReplace == Init /\ [][NextReplace]_vars

\* the counter scenario: a Binding seeded with 0 whose only sets are calls of
\* set(prev => prev + 1)
CounterKey == "count"
NextCounter ==
    \/ useState(CounterKey, Num(0))
    \/ setStateUpdater(CounterKey)
    \/ \E s \in Subscribers : \E k \in SubscribesTo(s) : onStateChange(k, s)
    \/ flushMicrotask

SpecCounter == Init /\ [][NextCounter]_vars

\* the page bound by initializeState: the checkbox group, markup inserted
\* later, and the user's clicks
NextForm ==
    \/ useState(GroupKey, Arr(<<>>))
    \/ initializeState
    \/ \E e \in LateElements : insertMarkup(e)
    \/ observerCallback
    \/ \E e \in Elements : changeEvent(e)
    \/ flushMicrotask

SpecForm == Init /\ [][NextForm]_vars

\* an effect on the state keys
NextEffect ==
    \/ \E k \in Keys : \E v \in InitialValues(k) : useState(k, v)
    \/ \E k \in Keys : \E v \in SetValues(k) : setState(k, v)
    \/ \E d \in EffectDeps, r \in SUBSET EffectRuns : useEffect(d, r)
    \/ unregisterEffect

SpecEffect == Init /\ [][NextEffect]_vars

(***************************************************************************)
(* The Store (src/unnamed/part_006), made with the options                 *)
(*   state: {count: 0},                                                    *)
(*   mutations: {increment(state) { state.count++ }},                      *)
(*   actions: {incrementAsync({commit}) { commit('increment') }}.          *)
(***************************************************************************)
MaxCalls == 3
StoreKey == "count"
\* the own properties of options.mutations and of options.actions
StoreMutations == {"increment"}
StoreActions == {"incrementAsync"}
\* properties every plain object inherits from Object.prototype: toString
\* returns a string whatever it is called on, hasOwnProperty throws a
\* TypeError when it is called as a plain function
ObjectPrototype == {"toString", "hasOwnProperty"}
ThrowsOnUndefinedThis == {"hasOwnProperty"}
\* the types the page's scripts pass to commit and to dispatch
MutationTypes == {"increment", "decrement", "toString", "hasOwnProperty"}
ActionTypes == {"incrementAsync", "missing", "toString"}

\* object[type] for a plain object with the given own properties
Lookup(own, type) ==
    CASE type \in own -> [t |-> "own", name |-> type]
      [] type \in ObjectPrototype -> [t |-> "inherited", name |-> type]
      [] OTHER -> Undefined

\* mutation(this.state, payload)
Mutated(state, mutation) ==
    IF mutation = [t |-> "own", name |-> "increment"]
    THEN [state EXCEPT ![StoreKey] = Num(@.n + 1)]
    ELSE state

RECURSIVE Notified(_, _, _, _)
\* this.subscribers.forEach((sub) => sub(this.state, prevState))
Notified(log, subs, state, prevState) ==
    IF subs = {} THEN log
    ELSE LET sub == CHOOSE x \in subs : TRUE
         IN Notified(Append(log, [sub |-> sub, state |-> state, prev |-> prevState]),
                     subs \ {sub}, state, prevState)

\* createStore(options): the Store is constructed, and its bridge calls
\* hooks.useState for every top-level key of the state
createStore ==
    /\ ~store.created
    /\ store' = [store EXCEPT !.created = TRUE, !.state = [k \in {StoreKey} |-> Num(0)]]
    /\ Stored(useStateIn(Store, StoreKey, Num(0)))
    /\ UNCHANGED hmrVars
    /\ UNCHANGED <<busListeners, received, setsInTurn, subFrom, nSets, nBinds,
                   inserted, observing, mutations, effect, nToggles, nInits,
                   bindLog, memoizedValues, socket, server, vnodes, errorOverlay>>
    /\ UNCHANGED <<trees, dom, commitLog, flushCount, flushed, lastFlush, nRenders>>

\* store.subscribe(callback)
subscribe(sub) ==
    /\ store.created /\ sub \notin store.subscribers
    /\ store' = [store EXCEPT !.subscribers = @ \cup {sub}]
    /\ UNCHANGED <<hmrVars, vdomVars>>
    /\ UNCHANGED <<stateBindings, busListeners, received, inputListeners, elValue,
                   elChecked, inserted, observing, mutations, effect, nToggles,
                   nInits, bindLog, memoizedValues, console, socket, server, vnodes, errorOverlay,
                   valueHist, setsInTurn, subFrom, nSets, nBinds>>

\* the Store after a call that ended, with an error or without one, before it
\* changed anything
Ended(call, error) ==
    /\ store' = [store EXCEPT !.calls = Append(@, [call EXCEPT !.error = error])]
    /\ UNCHANGED <<hmrVars, vdomVars>>
    /\ UNCHANGED <<stateBindings, busListeners, received, inputListeners, elValue,
                   elChecked, inserted, observing, mutations, effect, nToggles,
                   nInits, bindLog, memoizedValues, console, socket, server, vnodes, errorOverlay,
                   valueHist, setsInTurn, subFrom, nSets, nBinds>>

\* commit(type, payload), made by the call the record `call` describes
Committed(call, type) ==
    LET mutation == Lookup(StoreMutations, type)
        state == Mutated(store.state, mutation)
    IN IF mutation = Undefined THEN Ended(call, "Unknown mutation type")
       ELSE IF mutation.name \in ThrowsOnUndefinedThis THEN Ended(call, "TypeError")
       ELSE /\ nSets < MaxSets
            /\ store' = [store EXCEPT
                           !.state = state,
                           !.notified = Notified(@, store.subscribers, state, store.state),
                           !.calls = Append(@, [call EXCEPT !.ran = mutation])]
            /\ _setBindingValueOn(Page, StoreKey, state[StoreKey])
            /\ UNCHANGED <<nToggles, socket>>

NoCall == [op |-> "", type |-> "", error |-> NoError, ran |-> Undefined]

\* store.commit(type) called by the page's scripts
commit(type) ==
    /\ store.created /\ Len(store.calls) < MaxCalls
    /\ Committed([NoCall EXCEPT !.op = "commit", !.type = type], type)

\* store.dispatch(type) called by the page's scripts: the promise it returns is
\* rejected with the error the body throws
dispatch(type) ==
    LET action == Lookup(StoreActions, type)
        call == [NoCall EXCEPT !.op = "dispatch", !.type = type]
    IN /\ store.created /\ Len(store.calls) < MaxCalls
       /\ IF action = Undefined THEN Ended(call, "Unknown action type")
          ELSE IF action.t = "own" THEN Committed(call, "increment")
          ELSE Ended([call EXCEPT !.ran = action], NoError)

StoreSubscribers == {"w1", "w2"}
\* the Store driven by the page's scripts
NextVuex ==
    \/ createStore
    \/ \E sub \in StoreSubscribers : subscribe(sub)
    \/ \E type \in MutationTypes : commit(type)
    \/ \E type \in ActionTypes : dispatch(type)
    \/ \E s \in SetupSubscribers : onStateChange(StoreKey, s)
    \/ flushMicrotask

SpecVuex == Init /\ [][NextVuex]_vars

\* the formatter names the page's scripts pass to bindState
BindFormats == {"doesNotExist", ToFixed}

\* a call of hooks.bindState(key, element, formatter) by the page's scripts
bindStateFormatted(key, e, formatter) ==
    /\ nBinds < MaxBinds
    /\ InDocument(e)
    /\ Stored(bindStateWith(Store, key, e, formatter))
    /\ bindLog' = Append(bindLog, Bound(key, e, bindStateWith(Store, key, e, formatter)))
    /\ nBinds' = nBinds + 1
    /\ UNCHANGED hmrVars
    /\ UNCHANGED <<busListeners, received, setsInTurn, subFrom, nSets, restVars,
                   inserted, observing, mutations, effect, nToggles, nInits>>
    /\ UNCHANGED <<trees, dom, commitLog, flushCount, flushed, lastFlush, nRenders>>

\* elements with a data-format attribute, and elements bound with a formatter
FormatContainers == {Elem("out")}
NextFormat ==
    \/ \E v \in InitialValues(FormatKey) : useState(FormatKey, v)
    \/ \E v \in SetValues(FormatKey) : setState(FormatKey, v)
    \/ \E e \in FormatContainers, f \in BindFormats : bindStateFormatted(FormatKey, e, f)
    \/ \E s \in SetupSubscribers : onStateChange(FormatKey, s)
    \/ flushMicrotask

SpecFormat == Init /\ [][NextFormat]_vars

\* a page whose state is synchronised with the server over the socket
NextSync ==
    \/ initState
    \/ \E msg \in InboundMessages : receive(msg)
    \/ \E k \in SyncKeys, o \in CallOptions : ReactExpress_setState(k, Str("b"), o)
    \/ \E u \in BatchUpdates, o \in CallOptions : ReactExpress_batchUpdate(u, o)
    \/ flushMicrotask
SpecSync == Init /\ [][NextSync]_vars

\* the page, the server and another client connected to it: the page's
\* scripts set and batch-update keys with { sync: true }
NetOptions == {[sync |-> TRUE]}
NextNet ==
    \/ initState
    \/ \E k \in SyncKeys, o \in NetOptions : ReactExpress_setState(k, Str("x"), o)
    \/ \E u \in BatchUpdates, o \in NetOptions : ReactExpress_batchUpdate(u, o)
    \/ serverReceives
    \/ peerReceives
    \/ pageReceives
    \/ flushMicrotask
SpecNet == Init /\ [][NextNet]_vars

\* the sockets deliver what was emitted: a message that waits at the server
\* or at the other client is handled
SpecNetFair ==
    SpecNet /\ WF_vars(serverReceives) /\ WF_vars(peerReceives)

\* the server plugin watching the views directory
NextServer ==
    \/ \E b \in Builds : reactExpress(b)
    \/ \E f \in ViewFiles : watcherChange(f)
    \/ hmrTimerFires
    \/ serverTick
SpecServer == Init /\ [][NextServer]_vars

\* the page logging errors to the overlay and the developer paging through it
NextOverlay ==
    \/ enableDev
    \/ \E e \in LoggedErrors, m \in Metas : ErrorOverlay_log(e, m)
    \/ ErrorOverlay_show
    \/ ErrorOverlay_hide
    \/ ErrorOverlay_clear
    \/ ErrorOverlay_next
    \/ ErrorOverlay_prev
SpecOverlay == Init /\ [][NextOverlay]_vars

\* the server plugin answering placeholder requests
NextEndpoint ==
    \/ \E b \in Builds : reactExpress(b)
    \/ \E req \in Requests : getPlaceholder(req)
SpecEndpoint == Init /\ [][NextEndpoint]_vars

\* subscribers of one key, one of which sets the key while it handles an event
NextReentrant ==
    \/ \E v \in InitialValues(CounterKey) : useState(CounterKey, v)
    \/ \E s \in Subscribers \cup Resetters : onStateChange(CounterKey, s)
    \/ \E v \in SetValues(CounterKey) : setStateNested(CounterKey, v)
    \/ flushMicrotask
SpecReentrant == Init /\ [][NextReentrant]_vars

\* memoized values over the state keys
NextMemo ==
    \/ \E k \in Keys : \E v \in InitialValues(k) : useState(k, v)
    \/ \E k \in Keys : \E v \in SetValues(k) : setState(k, v)
    \/ \E f \in MemoFactories, d \in MemoDeps : useMemo(f, d)

SpecMemo == Init /\ [][NextMemo]_vars

\* elements bound by bindState calls of the page's scripts
NextBind ==
    \/ \E k \in Keys : \E v \in InitialValues(k) : useState(k, v)
    \/ \E e \in Elements : KeyOf(e) \in Keys /\ bindState(KeyOf(e), e)
    \/ \E k \in Keys : \E v \in SetValues(k) : setState(k, v)
    \/ flushMicrotask

SpecBind == Init /\ [][NextBind]_vars

\* the renderer driven by render calls of the page's scripts
NextRender ==
    \/ \E v \in VNodes, c \in RenderContainers : render(v, c)
    \/ \E v \in VNodes, c \in RenderContainers : renderSync(v, c)
    \/ flushMicrotask

SpecRender == Init /\ [][NextRender]_vars

\* what the page's scripts pass to createElement: props without and with a
\* children entry, and children with null, booleans and nested arrays
MaxCreated == 2
CreateTypes == {"div", "p"}
CreateProps == {NoProps, [id |-> "x"],
                [id |-> "x", children |-> <<Str("mine")>>]}
CreateChildren ==
    {<<>>, <<Str("a")>>, <<Str("a"), Null, Str("b")>>,
     <<List(<<Str("a"), Str("b")>>), Bool(FALSE), Num(1)>>,
     <<Undefined, Bool(TRUE)>>}

\* a call of vdom.createElement(type, props, ...children) by the page's scripts
createElementCall(type, props, children) ==
    /\ Len(vnodes) < MaxCreated
    /\ vnodes' = Append(vnodes, [type |-> type, props |-> props, children |-> children,
                                 returned |-> createElement(type, props, children)])
    /\ UNCHANGED <<hmrVars, vdomVars>>
    /\ UNCHANGED <<stateBindings, busListeners, received, inputListeners, elValue,
                   elChecked, inserted, observing, mutations, effect, nToggles,
                   nInits, bindLog, memoizedValues, console, store, socket, server,
                   errorOverlay, valueHist, setsInTurn, subFrom, nSets, nBinds>>

\* vnodes made by createElement
NextCreate ==
    \E t \in CreateTypes, p \in CreateProps, c \in CreateChildren :
        createElementCall(t, p, c)

SpecCreate == Init /\ [][NextCreate]_vars

\* buttons that differ in their click handler, in the spelling of the prop and
\* in the number of their children
Button(props, children) == El("button", props, children)
PropVNodes ==
    {Button([onclick |-> "h1"], <<Str("go")>>),
     Button([onclick |-> "h2"], <<Str("go")>>),
     Button([onClick |-> "h1"], <<Str("go")>>),
     Button(NoProps, <<Str("go")>>),
     Button([onclick |-> "h1"], <<Str("a"), Str("b"), Str("c")>>)}
PropContainers == {Elem("app")}

\* render calls with buttons patched in place
NextProps ==
    \/ \E v \in PropVNodes, c \in PropContainers : render(v, c)
    \/ \E v \in PropVNodes, c \in PropContainers : renderSync(v, c)
    \/ flushMicrotask

SpecProps == Init /\ [][NextProps]_vars

\* render calls with lists that grow and shrink by one, two or three children
Tree4 == El("div", NoProps, <<Str("a"), Str("b"), Str("c"), Str("d")>>)
Tree2 == El("div", NoProps, <<Str("a"), Str("b")>>)
ShrinkVNodes == {Tree4, Tree3, Tree2, Tree1}
NextShrink ==
    \/ \E v \in ShrinkVNodes : render(v, Elem("app"))
    \/ \E v \in ShrinkVNodes : renderSync(v, Elem("app"))
    \/ flushMicrotask

SpecShrink == Init /\ [][NextShrink]_vars

\* render calls with trees that differ in one leaf
NextDiff ==
    \/ \E v \in DiffVNodes, c \in RenderContainers : render(v, c)
    \/ \E v \in DiffVNodes, c \in RenderContainers : renderSync(v, c)
    \/ flushMicrotask

SpecDiff == Init /\ [][NextDiff]_vars

\* the page under hot module replacement: update messages, time, the network
\* and the user
NextHMR ==
    \/ hmrUpdate
    \/ tick
    \/ \E t \in timers : timerFires(t)
    \/ \E c \in CycleIds, r \in Responses : fetchSettles(c, r)
    \/ \E c \in CycleIds, o \in ReinitOutcomes : textSettles(c, o)
    \/ \E p \in Range(AllPaths(liveDocument)) : userType(p)
    \/ \E p \in Range(AllPaths(liveDocument)) : userToggle(p)
    \/ userScroll

SpecHMR == InitHMR /\ [][NextHMR]_vars

\* every promise the pipeline awaits settles: the browser ends a fetch with a
\* response or a network error, and the body of a response with its text.  A
\* step changes the progress of a cycle as FetchSettled does exactly if it is a
\* fetchSettles step, and as TextSettled does exactly if it is a textSettles step
SpecHMRFair ==
    /\ SpecHMR
    /\ WF_cycles(\E c \in CycleIds, r \in Responses : FetchSettled(c, r))
    /\ WF_cycles(\E c \in CycleIds : TextSettled(c))

(***************************************************************************)
(* Claims about the state store and the renderer.                          *)
(***************************************************************************)
\* the commits recorded for one render call
CommitsOfCall(call) == {i \in 1..Len(commitLog) : commitLog[i].call = call}
\* the commits one flush made to one container
CommitsIn(flushId, container) ==
    {i \in 1..Len(commitLog) :
       commitLog[i].flush = flushId /\ commitLog[i].container = container}

C2_LastQueuedCommittedOnce ==
    (\A c \in Elements : \A j \in 1..Len(lastFlush.batch[c]) :
        ~lastFlush.batch[c][j].sync)
    => \A c \in Elements :
        LET b == lastFlush.batch[c]
        IN b # <<>> =>
             /\ Cardinality(CommitsOfCall(b[Len(b)].call)) = 1
             /\ CommitsOfCall(b[Len(b)].call) \subseteq CommitsIn(lastFlush.id, c)
             /\ Cardinality(CommitsIn(lastFlush.id, c)) = 1
             /\ \A j \in 1..(Len(b) - 1) : CommitsOfCall(b[j].call) = {}

\* C6: in every flush in which a commit threw, every entry the flush took from
\* the queue has been committed
C6_FlushSurvivesThrow ==
    \A f \in 1..Len(flushed) :
        (\E i \in 1..Len(commitLog) : commitLog[i].flush = f /\ commitLog[i].threw)
        => \A j \in 1..Len(flushed[f]) : CommitsOfCall(flushed[f][j].call) # {}

\* C10: after a microtask flush before which a key was set n >= 1 times, every
\* non-form element bound to the key throughout has been committed to exactly
\* once in that flush, with the vnode of the last value set, and shows that value
C10_BoundElementShowsLastValue ==
    \A e \in Elements :
        (~IsFormControl(e) /\ KeyOf(e) \in Keys) =>
            LET sets == lastFlush.sets[KeyOf(e)]
                last == sets[Len(sets)].value
                commits == CommitsIn(lastFlush.id, e)
            IN (sets # <<>> /\ e \in sets[1].elements) =>
                 /\ Cardinality(commits) = 1
                 /\ \A i \in commits : commitLog[i].vnode = VNodeOfDisplay(last)
                 /\ TextOfKids(lastFlush.dom[e]) = ToText(VNodeOfDisplay(last))

\* the events (1,0), (2,1), ..., (n,n-1) from the (from+1)-th on
CounterEvents(from, n) ==
    [j \in 1..(n - from) |-> ChangeEvent(Num(from + j), Num(from + j - 1))]

\* C11: in the counter scenario, after n calls of set(prev => prev + 1) on a
\* Binding seeded with 0 the value is n, the values held were 0, 1, ..., n, and
\* a subscriber has received exactly the events (1,0), (2,1), ..., (n,n-1), in
\* that order (those after the calls made before it subscribed)
C11_CounterScenario ==
    stateBindings[CounterKey] # NoBinding =>
        /\ stateBindings[CounterKey].value = Num(nSets)
        /\ valueHist[CounterKey] = [i \in 1..(nSets + 1) |-> Num(i - 1)]
        /\ \A i \in 1..Len(busListeners[CounterKey]) :
              LET s == busListeners[CounterKey][i]
              IN received[s] = CounterEvents(Max(subFrom[s], 1) - 1, nSets)

\* C11 witness: three updater calls, heard by a subscriber registered before them
C11_Witness ==
    /\ nSets = 3
    /\ stateBindings[CounterKey] # NoBinding
    /\ stateBindings[CounterKey].value = Num(3)
    /\ \E i \in 1..Len(busListeners[CounterKey]) :
          received[busListeners[CounterKey][i]] =
              <<ChangeEvent(Num(1), Num(0)), ChangeEvent(Num(2), Num(1)),
                ChangeEvent(Num(3), Num(2))>>

\* the elements in the element set of the Binding of a key
BoundElements(k) ==
    IF stateBindings[k] = NoBinding THEN {}
    ELSE {stateBindings[k].elements[i] : i \in 1..Len(stateBindings[k].elements)}

\* C12: every input, textarea or select element that is bound to a key has
\* exactly one input/change listener attached
C12_OneListenerPerControl ==
    \A k \in AllKeys : \A e \in BoundElements(k) :
        IsFormControl(e) => inputListeners[e] = 1

\* what the claim asks of a form control bound to a key whose Binding holds
\* value
Agrees(e, value) ==
    IF IsCheckbox(e)
    THEN elChecked[e] <=> IF Len(Checkboxes(KeyOf(e))) > 1 \/ ValueAttr(e) # ""
                          THEN value.t = "arr" /\ Includes(value, ValueAttr(e))
                          ELSE value = Bool(TRUE)
    ELSE IF IsRadio(e) THEN elChecked[e] <=> value = Str(ValueAttr(e))
    ELSE elValue[e] = ToText(value)

\* C38: once a key without formatter has been set, by the user or by a set
\* call, and no update is pending, every form control bound to the key agrees
\* with the value of the Binding: a text control shows it, a checkbox of a
\* group is checked exactly when the value includes its value attribute, a
\* lone checkbox exactly when the value is true, and a radio button exactly
\* when its value attribute is the value
C38_ControlsAgreeWithBinding ==
    \A k \in ControlKeys : \A e \in BoundElements(k) :
        (/\ IsFormControl(e) /\ FormatAttr(e) = "" /\ InDocument(e)
         /\ microtasks = 0 /\ Len(valueHist[k]) >= 2)
            => Agrees(e, stateBindings[k].value)

\* the state elements of the document that carry key k
InDocumentWith(k) == {e \in Nodes : KeyOf(e) = k /\ InDocument(e)}

\* C39: the element set of a Binding holds only elements that are in the
\* document, so it is never larger than the number of elements of the
\* document that carry the key, however many hot updates have replaced them
C39_ElementSetFollowsDocument ==
    \A k \in AllKeys :
        /\ BoundElements(k) \subseteq InDocumentWith(k)
        /\ Cardinality(BoundElements(k)) <= Cardinality(InDocumentWith(k))

\* a sequence without a repeated entry
NoRepeat(seq) == \A i, j \in 1..Len(seq) : seq[i] = seq[j] => i = j

\* a step that is a bindState call for a pair (key, element) bound already
BindsAgain ==
    /\ Len(bindLog') = Len(bindLog) + 1
    /\ bindLog'[Len(bindLog')].element \in BoundElements(bindLog'[Len(bindLog')].key)

\* a step that is a set on key k
SetsKey(k) == nSets' = nSets + 1 /\ Len(valueHist'[k]) = Len(valueHist[k]) + 1

\* C13: a bindState call for a pair (key, element) that is bound already leaves
\* the Bindings and the listeners as they are; no element occurs twice in an
\* element set or has more than one input/change listener; and a set on a key
\* makes exactly one render call for each non-form element bound to it (none
\* for any other element) and writes the value to each bound text control
C13_RebindIsIdempotent ==
    /\ [][BindsAgain => (stateBindings' = stateBindings
                          /\ inputListeners' = inputListeners)]_vars
    /\ [](\A k \in AllKeys :
            stateBindings[k] # NoBinding => NoRepeat(stateBindings[k].elements))
    /\ [](\A e \in Elements : inputListeners[e] <= 1)
    /\ [][\A k \in Keys : SetsKey(k) =>
            \A e \in Elements :
                /\ ~IsFormControl(e) =>
                      Len(batch'[e]) = Len(batch[e])
                                       + (IF e \in BoundElements(k) THEN 1 ELSE 0)
                /\ (IsFormControl(e) /\ e \in BoundElements(k)) =>
                      elValue'[e] = ToText(stateBindings'[k].value)]_vars

\* C13 witness: bindState was called twice for one pair before the key had a
\* value, and the one set made since has made one render call for the element
C13_Witness ==
    /\ Len(bindLog) = 2
    /\ bindLog[1].key = bindLog[2].key
    /\ bindLog[1].element = bindLog[2].element
    /\ ~bindLog[2].hadValue
    /\ ~IsFormControl(bindLog[1].element)
    /\ Len(setsInTurn[bindLog[1].key]) = 1
    /\ Len(batch[bindLog[1].element]) = 1
    /\ stateBindings[bindLog[1].key].elements = <<bindLog[1].element>>

\* the Binding of the key has had no value so far
Unset(k) ==
    /\ stateBindings[k] # NoBinding
    /\ \A i \in 1..Len(valueHist[k]) : valueHist[k][i] = Undefined

\* the element is as the server delivered it: its content, its value, and no
\* render queued for it or committed to it
AsDelivered(e) ==
    /\ dom[e] = (IF IsFormControl(e) THEN <<>> ELSE <<TextNode(SSRText)>>)
    /\ elValue[e] = "" /\ ~elChecked[e]
    /\ batch[e] = <<>>
    /\ \A i \in 1..Len(queue) : queue[i].container # e
    /\ \A i \in 1..Len(commitLog) : commitLog[i].container # e
    /\ e \notin DOMAIN trees

\* C14: every element bound to a key whose Binding has had no value so far is
\* as the server delivered it
C14_UnsetBindingLeavesSSR ==
    \A k \in AllKeys : Unset(k) => \A e \in BoundElements(k) : AsDelivered(e)

\* C14 witness: an element was bound by bindState to a key without a value, the
\* key still has none, and a flush has committed to an element of another key
C14_Witness ==
    \E i \in 1..Len(bindLog) :
        /\ ~bindLog[i].hadValue
        /\ Unset(bindLog[i].key)
        /\ ~IsFormControl(bindLog[i].element)
        /\ bindLog[i].element \in BoundElements(bindLog[i].key)
        /\ AsDelivered(bindLog[i].element)
        /\ commitLog # <<>>

\* every checkbox of the key that is in the document is bound to the key
GroupBound(k) ==
    /\ stateBindings[k] # NoBinding
    /\ \A i \in 1..Len(Checkboxes(k)) : Checkboxes(k)[i] \in BoundElements(k)

\* C19: whenever the user toggles a checkbox of the group, all checkboxes of
\* the group being bound to the key, the value of the Binding after the toggle
\* is the array of the value attributes of the checkboxes that are then
\* checked, in document order
C19_GroupValueIsCheckedValues ==
    [][(nToggles' = nToggles + 1 /\ GroupBound(GroupKey)) =>
          stateBindings'[GroupKey].value
              = CheckedValues(Checkboxes(GroupKey), elChecked')]_vars

IsTextVNode(v) == v.t \in {"str", "num"}

RECURSIVE OneLeafDiff(_, _), LeafPath(_, _)
\* the trees T1 and T2 differ only in one leaf text node
OneLeafDiff(T1, T2) ==
    IF IsTextVNode(T1) /\ IsTextVNode(T2) THEN T1 # T2
    ELSE /\ T1.t = "el" /\ T2.t = "el"
         /\ T1.type = T2.type /\ T1.props = T2.props
         /\ Len(T1.children) = Len(T2.children)
         /\ \E i \in 1..Len(T1.children) :
               /\ OneLeafDiff(T1.children[i], T2.children[i])
               /\ \A j \in 1..Len(T1.children) \ {i} : T1.children[j] = T2.children[j]

\* the child indexes that lead from the root of the trees to that leaf
LeafPath(T1, T2) ==
    IF IsTextVNode(T1) THEN <<>>
    ELSE LET i == CHOOSE j \in 1..Len(T1.children) :
                       T1.children[j] # T2.children[j]
         IN <<i>> \o LeafPath(T1.children[i], T2.children[i])

RECURSIVE DomAt(_, _), DomWithout(_, _), BornAt(_, _)
\* the node at a path of child indexes below a list of child nodes
DomAt(kids, path) ==
    IF path = <<>> \/ Head(path) > Len(kids) THEN NoNode
    ELSE IF Len(path) = 1 THEN kids[Head(path)]
    ELSE DomAt(KidsOf(kids[Head(path)]), Tail(path))

\* the child nodes with the node at the path taken out of the comparison
DomWithout(kids, path) ==
    IF path = <<>> \/ Head(path) > Len(kids) THEN kids
    ELSE IF Len(path) = 1 THEN [kids EXCEPT ![Head(path)] = NoNode]
    ELSE IF kids[Head(path)].kind # "el" THEN kids
    ELSE [kids EXCEPT ![Head(path)].kids = DomWithout(@, Tail(path))]

\* the number of nodes below kids that _commit call n made
BornAt(kids, n) ==
    IF kids = <<>> THEN 0
    ELSE (IF Head(kids).born = n THEN 1 ELSE 0)
         + BornAt(KidsOf(Head(kids)), n) + BornAt(Tail(kids), n)

\* the commits of a tree that differs in one leaf from the container's tree
LeafCommits ==
    {i \in 1..Len(commitLog) :
       /\ commitLog[i].prev # Undefined
       /\ ~IsRaw(commitLog[i].prev) /\ ~IsRaw(commitLog[i].vnode)
       /\ OneLeafDiff(commitLog[i].prev, commitLog[i].vnode)}

\* one text node, the one of the leaf, is replaced or changed by commit i
\* and every other node of the container is the node it was
TouchesOneTextNode(i, path, leaf) ==
    LET was == DomAt(commitLog[i].before, path)
        now == DomAt(commitLog[i].after, path)
    IN /\ was.kind = "text" /\ now.kind = "text"
       /\ now.data = ToText(leaf)
       /\ \/ now.born = i /\ BornAt(commitLog[i].after, i) = 1
          \/ now.born = was.born /\ BornAt(commitLog[i].after, i) = 0
       /\ DomWithout(commitLog[i].after, path) = DomWithout(commitLog[i].before, path)

RECURSIVE VNodeAtPath(_, _)
VNodeAtPath(T, path) ==
    IF path = <<>> THEN T ELSE VNodeAtPath(T.children[Head(path)], Tail(path))

\* C15: a commit of a tree that differs from the tree committed before it to
\* the same container only in one leaf text node replaces or changes exactly
\* one DOM text node, the one of that leaf, which then shows the new text,
\* and every other node of the container is the same node object as before
C15_DiffTouchesOneTextNode ==
    \A i \in LeafCommits :
        LET path == LeafPath(commitLog[i].prev, commitLog[i].vnode)
        IN TouchesOneTextNode(i, <<1>> \o path,
                              VNodeAtPath(commitLog[i].vnode, path))

\* the child nodes a container holds when exactly the DOM of a vnode is in it
Realized(vnode) ==
    IF IsRaw(vnode) THEN ParseHTML(vnode.html)
    ELSE <<createDOMElement(vnode).node>>

Realizable(vnode) == IsRaw(vnode) \/ createDOMElement(vnode).ok

\* the commits to a container that had no tree, of a vnode that has a DOM
FirstCommits ==
    {i \in 1..Len(commitLog) :
       commitLog[i].prev = Undefined /\ Realizable(commitLog[i].vnode)}

LastCommitTo(c) ==
    {i \in 1..Len(commitLog) :
       /\ commitLog[i].container = c
       /\ \A j \in (i + 1)..Len(commitLog) : commitLog[j].container # c}

RECURSIVE SameAs(_, _)
\* whether the child nodes a and b are the same trees of nodes, whichever
\* commits made them
SameAs(a, b) ==
    /\ Len(a) = Len(b)
    /\ \A i \in 1..Len(a) :
          /\ [a[i] EXCEPT !.born = NotBorn, !.kids = <<>>]
               = [b[i] EXCEPT !.born = NotBorn, !.kids = <<>>]
          /\ a[i].kind = "el" => SameAs(a[i].kids, b[i].kids)

\* the containers the step has made a render call with options.sync for
SyncRendered ==
    {c \in RenderContainers :
       /\ Len(batch'[c]) = Len(batch[c]) + 1
       /\ batch'[c][Len(batch'[c])].sync}

\* the render call of the step has returned: no commit of its flush threw
RenderReturned ==
    \A i \in (Len(commitLog) + 1)..Len(commitLog') : ~commitLog'[i].threw

\* C26: when a render call with options.sync returns, the tree of the
\* container is the vnode of the call and the children of the container are
\* the DOM of that vnode
C26_SyncRenderCommits ==
    [][\A c \in SyncRendered :
         RenderReturned =>
            LET vnode == batch'[c][Len(batch'[c])].vnode
            IN /\ TreeOf(trees', c) = vnode
               /\ SameAs(dom'[c], Realized(vnode))]_vars

\* the commits of a vnode with fewer children than the tree it is diffed
\* against, an element of the same type whose DOM the container then held
ShrinkingCommits ==
    {i \in 1..Len(commitLog) :
       LET c == commitLog[i]
       IN /\ c.prev # Undefined /\ ~IsRaw(c.prev) /\ ~IsRaw(c.vnode)
          /\ c.prev.t = "el" /\ c.vnode.t = "el" /\ c.prev.type = c.vnode.type
          /\ Len(c.vnode.children) < Len(c.prev.children)
          /\ SameAs(c.before, Realized(c.prev))}

\* C35: a commit of a vnode with fewer children than the old vnode under the
\* same element does not throw and leaves the element with exactly the
\* children of the new vnode, in order
C35_SurplusChildrenRemoved ==
    \A i \in ShrinkingCommits :
        /\ ~commitLog[i].threw
        /\ SameAs(commitLog[i].after, Realized(commitLog[i].vnode))

\* the containers whose element the last commit to them has patched in place:
\* the commit did not throw, and the element is older than it
PatchedInPlace ==
    {c \in PropContainers :
       /\ c \in DOMAIN trees /\ trees[c].t = "el"
       /\ Len(dom[c]) = 1 /\ dom[c][1].kind = "el"
       /\ \E i \in LastCommitTo(c) : ~commitLog[i].threw /\ dom[c][1].born < i}

\* C27: an element patched in place has exactly the listeners of the on* props
\* of the tree of its container, the vnode committed last: one per prop, with
\* the handler given there
C27_ListenersOfLatestVNode ==
    \A c \in PatchedInPlace :
        dom[c][1].listeners = PropsListeners(trees[c].props)

\* C28 as stated: the props of a vnode createElement returned have no children
\* entry
C28_NoChildrenKey ==
    \A i \in 1..Len(vnodes) : "children" \notin DOMAIN vnodes[i].returned.props

\* the children arguments of a call and the items of the arrays among them
\* that are neither null nor undefined nor a boolean, in order
Positional(children) ==
    LET all == Flat(children)
    IN SelectSeq(all, LAMBDA c : c # Null /\ c # Undefined /\ c # Bool(TRUE)
                                 /\ c # Bool(FALSE))

\* C28 amended: the props of a vnode createElement returned have a children
\* entry that holds the positional children of the call, whatever children
\* entry the props argument had, and every other entry of the props argument
\* as it was given
C28_ChildrenInProps ==
    \A i \in 1..Len(vnodes) :
        LET call == vnodes[i]
            made == call.returned.props
        IN /\ DOMAIN made = DOMAIN call.props \cup {"children"}
           /\ made["children"] = Positional(call.children)
           /\ \A k \in DOMAIN call.props \ {"children"} : made[k] = call.props[k]

\* C28 witness: a call with a children entry in its props and with null among
\* its children returned a vnode whose children entry is the two strings passed
C28_Witness ==
    \E i \in 1..Len(vnodes) :
        /\ "children" \in DOMAIN vnodes[i].props
        /\ Null \in Range(vnodes[i].children)
        /\ vnodes[i].returned.props["children"] = <<Str("a"), Str("b")>>

\* the step applies an inbound message: a handler of initState ran
InboundStep == Len(socket'.got) = Len(socket.got) + 1

\* C29: a step that applies an inbound state:update or state:batch-update
\* message emits nothing on the socket
C29_InboundNeverEmits ==
    [][InboundStep => socket'.emitted = socket.emitted]_vars

\* the number of pairs the messages got so far carried
RECURSIVE PairsIn(_)
PairsIn(msgs) ==
    IF msgs = <<>> THEN 0 ELSE Len(Head(msgs).updates) + PairsIn(Tail(msgs))

\* C29 witness: a state:update and a state:batch-update message were applied,
\* every set so far was theirs, the last value they carried is the value of
\* its key, and the socket has emitted nothing
C29_Witness ==
    /\ Len(socket.got) = 2
    /\ {socket.got[i].event : i \in 1..2} = {"state:update", "state:batch-update"}
    /\ nSets = PairsIn(socket.got)
    /\ LET last == socket.got[2].updates[Len(socket.got[2].updates)]
       IN stateBindings[last.key].value = last.value
    /\ socket.emitted = <<>>

\* the page's socket has emitted a state:batch-update message with updates u
BatchSent(u) ==
    \E i \in 1..Len(socket.emitted) :
        socket.emitted[i] = Message("state:batch-update", u)

\* the server and the other client hold the values of updates u
BatchArrived(u) ==
    \A i \in 1..Len(u) : /\ server.state[u[i].key] = u[i].value
                          /\ server.peer.state[u[i].key] = u[i].value

\* C40: once the page has sent the updates of a batchUpdate(updates,
\* {sync: true}) call, the server's state and the state of the other connected
\* client eventually hold the values of updates
C40_BatchReachesServerAndClients ==
    \A u \in BatchUpdates : BatchSent(u) ~> BatchArrived(u)

\* change events first..last are a burst: each but the first came less than
\* 100 ms after its predecessor, and the events around them did not
Burst(first, last) ==
    LET at(i) == server.changes[i].at
        Near(i) == at(i) - at(i - 1) < ServerDebounceMs
    IN /\ first <= last
       /\ \A i \in (first + 1)..last : Near(i)
       /\ first > 1 => ~Near(first)
       /\ last < Len(server.changes) => ~Near(last + 1)

\* the burst that ends with change event last is over: another burst has
\* begun, or 100 ms have passed and no timer is pending
BurstOver(last) ==
    \/ last < Len(server.changes)
    \/ /\ server.clock >= server.changes[last].at + ServerDebounceMs
       /\ server.hmrTimer = NoTimer

\* C30: a burst of change events that is over has caused exactly one hmr:update
\* broadcast, and that one was sent after the last event of the burst
C30_OneBroadcastPerBurst ==
    \A first, last \in 1..Len(server.changes) :
        Burst(first, last) /\ BurstOver(last)
        => LET sent == {b \in 1..Len(server.broadcasts) :
                          server.broadcasts[b].after \in first..last}
           IN /\ Cardinality(sent) = 1
              /\ \A b \in sent : server.broadcasts[b].after = last

\* C31 as stated: no two entries of the overlay's error queue have the same
\* formatted message
C31_NoTwoEntriesAlike ==
    \A i, j \in 1..Len(errorOverlay.errors) :
        i # j => formatError(errorOverlay.errors[i].error)
                   # formatError(errorOverlay.errors[j].error)

\* C31 amended: no two adjacent entries of the overlay's error queue have the
\* same formatted message
C31_NoAdjacentEntriesAlike ==
    \A i \in 1..(Len(errorOverlay.errors) - 1) :
        formatError(errorOverlay.errors[i].error)
           # formatError(errorOverlay.errors[i + 1].error)

\* C31 witness: three errors were logged in developer mode, the second another
\* object than the first with the same formatted message, and the queue holds
\* two entries, the first refreshed by the second call
C31_Witness ==
    /\ errorOverlay.dev
    /\ errorOverlay.logs = 3
    /\ Len(errorOverlay.errors) = 2
    /\ errorOverlay.errors[1].error = Err("", "boom", <<>>)
    /\ errorOverlay.errors[1].time = 2
    /\ errorOverlay.errors[2].time = 3

\* the location a request path resolves to
LocationOf(req) == PathResolve(ViewsDir, RawPath(req))

\* C32: the endpoint has rendered a template only for request paths that
\* resolve to a location inside the views directory, and has answered every
\* path that resolves outside it with an error and no rendering
C32_RendersInsideViewsOnly ==
    \A i \in 1..Len(server.responses) :
        LET r == server.responses[i]
            inside == StartsWithDir(LocationOf(r.request), ViewsDir)
        IN /\ r.rendered # NoFile => inside /\ StartsWithDir(r.rendered, ViewsDir)
           /\ ~inside => r.rendered = NoFile /\ r.status # 200

\* the step is a call of ReactExpress.setState(key, value) without options
\* while a socket is connected
SetWithoutOptions ==
    /\ socket.on
    /\ Len(socket'.calls) = Len(socket.calls) + 1
    /\ socket'.calls[Len(socket'.calls)].fn = "setState"
    /\ socket'.calls[Len(socket'.calls)].options = Omitted

\* C33: a call of ReactExpress.setState(key, value) without options while a
\* socket is connected emits one state:update {key, value} message
C33_SetSyncsByDefault ==
    [][SetWithoutOptions
         => socket'.emitted =
              Append(socket.emitted,
                     Message("state:update",
                             socket'.calls[Len(socket'.calls)].updates))]_vars

\* every set call so far was followed by a flush of its render: there were as
\* many flushes with work as sets, and none is pending
EachSetFlushed == microtasks = 0 /\ nSets >= 1 /\ flushCount = nSets

\* C34: in the counter scenario, seeded with 0, when each call of
\* set(prev => prev + 1) was followed by a flush, the text of every non-form
\* element bound to the key is the current value: 1, then 2, then 3
C34_CounterTextFollows ==
    (stateBindings[CounterKey] # NoBinding /\ EachSetFlushed) =>
        /\ stateBindings[CounterKey].value = Num(nSets)
        /\ \A e \in BoundElements(CounterKey) :
              ~IsFormControl(e) => TextOfKids(dom[e]) = ToText(Num(nSets))

\* C37: with a subscriber that sets the key while it handles a change event,
\* every other subscriber of the key has received the change events in the
\* order in which the values were assigned, each with `previous` equal to the
\* value of the event it received just before
C37_OrderUnderReentrancy ==
    \A i \in 1..Len(busListeners[CounterKey]) :
        LET s == busListeners[CounterKey][i]
            base == Max(subFrom[s], 1)
        IN (s \notin Resetters /\ valueHist[CounterKey] # <<>>) =>
             /\ Len(received[s]) = Len(valueHist[CounterKey]) - base
             /\ \A j \in 1..Len(received[s]) :
                  /\ received[s][j].value = valueHist[CounterKey][base + j]
                  /\ received[s][j].previous =
                        IF j = 1 THEN valueHist[CounterKey][base]
                        ELSE received[s][j - 1].value

\* the step is a useMemo call
MemoCall == Len(memoizedValues'.calls) = Len(memoizedValues.calls) + 1

\* the useMemo calls so far whose dependency list no call with another
\* factory shares
Unshared ==
    {i \in 1..Len(memoizedValues.calls) :
       \A j \in 1..Len(memoizedValues.calls) :
          memoizedValues.calls[j].key = memoizedValues.calls[i].key
             => memoizedValues.calls[j].f = memoizedValues.calls[i].f}

\* the keys set by the step
KeysSet == {k \in AllKeys : valueHist'[k] # valueHist[k] /\ valueHist[k] # <<>>}

SetOf(k) == Len(valueHist'[k]) = Len(valueHist[k]) + 1 /\ nSets' = nSets + 1

\* the vnode queued for a container, Undefined if none is
QueuedFor(q, e) ==
    IF \E i \in 1..Len(q) : q[i].container = e
    THEN (CHOOSE x \in Range(q) : x.container = e).vnode
    ELSE Undefined

\* whether an element shows, or is queued to show, the display value of v
Shows(e, v, formatter, values, q) ==
    IF IsFormControl(e) THEN values[e] = ToText(Display(v, formatter))
    ELSE QueuedFor(q, e) = VNodeOfDisplay(Display(v, formatter))

\* C22: a set of a key one of whose elements has a formatter that throws for
\* the new value still updates every element of the key whose formatter does
\* not throw, and still emits the key's change event, with the new and the
\* previous value, to every listener of the key
C22_ThrowingFormatterIsolated ==
    [][\A k \in AllKeys :
         LET b == stateBindings'[k]
             v == b.value
         IN (SetOf(k) /\ \E e \in Range(b.elements) : Throws(v, FormatterOf(b, e)))
            => /\ \A e \in Range(b.elements) :
                    (~Throws(v, FormatterOf(b, e)) /\ ~IsCheckbox(e))
                       => Shows(e, v, FormatterOf(b, e), elValue', queue')
               /\ \A s \in Range(busListeners[k]) :
                    received'[s] = Append(received[s],
                                          [value |-> v,
                                           previous |-> stateBindings[k].value])]_vars

\* C22 witness: the key was set to "x", for which the formatter of the first
\* element threw and was logged; the elements after it show "x" as their
\* formatters give it, and the subscriber got the event
C22_Witness ==
    /\ stateBindings[FormatKey] # NoBinding
    /\ stateBindings[FormatKey].value = Str("x")
    /\ Head(stateBindings[FormatKey].elements) = Elem("fixed")
    /\ \E i \in 1..Len(console) :
          console[i] = [message |-> "Error updating element:", about |-> "fixed"]
    /\ QueuedFor(queue, Elem("shown")) = Str("\"x\"")
    /\ QueuedFor(queue, Elem("plain")) = Str("x")
    /\ elValue[Elem("typed")] = "x"
    /\ received["s1"] # <<>>
    /\ received["s1"][Len(received["s1"])].value = Str("x")

\* a format attribute that names no registry entry and no global function and
\* has no js: prefix
Unresolvable(formatter) ==
    /\ formatter # ""
    /\ formatter \notin FormatterRegistry \cup GlobalFunctions
    /\ ~StartsWithJs(formatter)

\* the elements the scan of their key has added to its Binding
ScannedElements ==
    {e \in Elements : /\ KeyOf(e) \in AllKeys
                      /\ stateBindings[KeyOf(e)] # NoBinding
                      /\ InSeq(e, stateBindings[KeyOf(e)].elements)}

\* C23: once the scan of a key has taken in an element whose format attribute
\* cannot be resolved, the console holds an error about that attribute
C23_UnresolvableFormatLogged ==
    \A e \in ScannedElements :
        Unresolvable(FormatAttr(e))
           => \E i \in 1..Len(console) : console[i].about = FormatAttr(e)

\* the elements of the format key's Binding that are shown without a formatter
\* because the name given for one is unresolvable: by their data-format
\* attribute, or by the argument of the bindState call that bound them
RawShown ==
    IF stateBindings[FormatKey] = NoBinding THEN {}
    ELSE {e \in Range(stateBindings[FormatKey].elements) :
            /\ FormatterOf(stateBindings[FormatKey], e) = NoFormatter
            /\ \/ Unresolvable(FormatAttr(e)) /\ KeyOf(e) = FormatKey
               \/ \E i \in 1..Len(bindLog) : bindLog[i].element = e}

StoreCall == Len(store'.calls) = Len(store.calls) + 1

\* C25: a commit whose type is no mutation of the options ends with an error
\* and leaves the state of the Store, the Bindings, the change events received
\* and the notifications of the Store's subscribers as they were; a dispatch
\* whose type is no action of the options ends with an error and has run
\* nothing
C25_UnknownTypesFailFast ==
    [][StoreCall =>
         LET c == store'.calls[Len(store'.calls)]
         IN /\ (c.op = "commit" /\ c.type \notin StoreMutations)
                 => /\ c.error # NoError
                    /\ store'.state = store.state
                    /\ store'.notified = store.notified
                    /\ stateBindings' = stateBindings
                    /\ received' = received
            /\ (c.op = "dispatch" /\ c.type \notin StoreActions)
                 => /\ c.error # NoError
                    /\ c.ran = Undefined
                    /\ store'.state = store.state]_vars

\* the change events of key k dispatched while the effect was registered
EventsWhileOn(k) ==
    IF k \notin effect.deps THEN 0
    ELSE (IF effect.state = "off" THEN effect.offAt[k] ELSE SetsOn(k)) - effect.regAt[k]

LogAt(kind, run) ==
    {i \in 1..Len(effect.log) : effect.log[i] = [kind |-> kind, run |-> run]}

\* C20: the log of a registered effect holds one run of effectFn for the
\* registration and one per change event of a dependency key dispatched while
\* it was registered, in order; the cleanup returned by a run has been invoked
\* exactly once if a later run or the unregistration has happened, right
\* before it, and not at all otherwise; no cleanup is invoked that was not
\* returned; and nothing is logged after the unregistration
C20_EffectRunsAndCleanups ==
    effect.state # "unset" =>
        /\ effect.runs = 1 + EventsWhileOn("count") + EventsWhileOn("name")
        /\ \A r \in EffectRuns :
              /\ Cardinality(LogAt("run", r)) = (IF r <= effect.runs THEN 1 ELSE 0)
              /\ \A i \in LogAt("run", r), j \in LogAt("run", r + 1) : i < j
              /\ IF r \in effect.returns
                    /\ (r < effect.runs \/ (r = effect.runs /\ effect.state = "off"))
                 THEN /\ Cardinality(LogAt("cleanup", r)) = 1
                      /\ \A i \in LogAt("cleanup", r) :
                            /\ \A j \in LogAt("run", r) : j < i
                            /\ i < Len(effect.log)
                            /\ effect.log[i + 1] \in
                                  {[kind |-> "run", run |-> r + 1],
                                   [kind |-> "unregister", run |-> r]}
                 ELSE LogAt("cleanup", r) = {}
        /\ \A i \in 1..Len(effect.log) :
              effect.log[i].kind = "unregister" =>
                  i = Len(effect.log) /\ effect.state = "off"
        /\ effect.state = "off" =>
              effect.log[Len(effect.log)].kind = "unregister"

\* C20 witness: an unregistered effect that ran three times, whose first
\* cleanup ran before the second run and whose last cleanup ran at the
\* unregistration, and a dependency key has been set since
C20_Witness ==
    /\ effect.state = "off"
    /\ effect.runs = 3
    /\ {1, 3} \subseteq effect.returns
    /\ LogAt("cleanup", 1) # {} /\ LogAt("cleanup", 3) # {}
    /\ \E k \in effect.deps : SetsOn(k) > effect.offAt[k]

(***************************************************************************)
(* Claims about the HMR update pipeline.                                   *)
(***************************************************************************)
Done(c) == c <= Len(cycles) /\ cycles[c].pc = "done"
InFlight == {c \in 1..Len(cycles) : cycles[c].pc # "done"}
EventsOf(c) == {i \in 1..Len(events) : events[i].cycle = c}
Has(log, step) == \E i \in 1..Len(log) : log[i] = step
RestoreSteps == {"restoreStateValues", "restoreFormStates", "restoreFocusAndScroll"}
CaptureSteps == {"captureStateValues", "captureFormStates", "captureFocusAndScroll"}
\* the step a cycle's processUpdate threw in: the one logged before handleUpdateError
ThrewIn(log, step) ==
    \E i \in 1..(Len(log) - 1) : log[i] = step /\ log[i + 1] = "handleUpdateError"

\* the replacements made by cycle c
ReplacedBy(c) == {i \in 1..Len(replaced) : replaced[i].cycle = c}

\* cycle 2 started while the fetch of cycle 1 was pending, both fetches were
\* answered with a page, and both cycles are done, each having replaced the
\* content of the page
BothDoneOverlapped ==
    /\ Done(1) /\ Done(2)
    /\ 1 \in cycles[2].pending
    /\ cycles[1].response.ok /\ cycles[2].response.ok
    /\ ReplacedBy(1) # {} /\ ReplacedBy(2) # {}

\* C36: when a second cycle started while the fetch of the first was pending
\* and both are done, the replacement made last, which the live document
\* shows, is the markup fetched by the second cycle
C36_LaterCycleWins ==
    BothDoneOverlapped =>
        \A i \in ReplacedBy(2) :
            /\ replaced[Len(replaced)].temp = replaced[i].temp
            /\ replaced[Len(replaced)].html = replaced[i].html

\* the controls of a document that share a tag and a name, in document order
ControlsLike(doc, tag, name) ==
    querySelectorAll(doc, LAMBDA n : IsControl(n) /\ n.tag = tag /\ n.name = name)

\* the place of the control at path p among the controls of its tag and name
RankOf(doc, p) ==
    LET like == ControlsLike(doc, NodeAt(doc, p).tag, NodeAt(doc, p).name)
    IN CHOOSE j \in 1..Len(like) : like[j] = p

\* the control at path p of the document before replacement r keeps its value
\* and checkedness, and its focus and selection if it is the text control the
\* user typed in, in the control that corresponds to it after the cycle
Kept(r, p) ==
    LET n == NodeAt(r.before, p)
        j == RankOf(r.before, p)
        next == ControlsLike(r.temp, n.tag, n.name)
        now == ControlsLike(r.after, n.tag, n.name)
    IN (n.name # "" /\ Len(next) >= j) =>
          /\ Len(now) >= j
          /\ NodeAt(r.after, now[j]).value = n.value
          /\ NodeAt(r.after, now[j]).checked = n.checked
          /\ (/\ r.active = p /\ HasSelection(n)
              /\ n.value = TypedText /\ n.sel = TypedSel
              /\ HasSelection(NodeAt(r.temp, next[j])))
             => /\ r.afterActive = now[j]
                /\ NodeAt(r.after, now[j]).sel = TypedSel

\* C17: after a cycle that ran Capture, Replace and Restore to the end, every
\* control of the document before it whose tag and name the replacement
\* markup has too is found, in the control that corresponds to it, with the
\* value and checkedness it had; the text control the user typed "abc" into
\* and selected [1,2] of has the focus and that selection
C17_FormRoundTrip ==
    \A i \in 1..Len(replaced) :
        replaced[i].full =>
            \A p \in Range(querySelectorAll(replaced[i].before, IsControl)) :
                Kept(replaced[i], p)

\* the root container by the rule: the first element with the root marker,
\* else the first <main>, else the body of the document the nodes are of
RootByRule(nodes) ==
    LET marked == querySelectorAll(nodes, IsRootMarker)
        mains == querySelectorAll(nodes, IsMain)
    IN IF marked # <<>> THEN marked[1]
       ELSE IF mains # <<>> THEN mains[1]
       ELSE BodyPath

\* C18: in a cycle whose response is OK, the container mergeContent writes to
\* is the root of the live document by the rule, and right after mergeContent
\* its content is the content of the root, by the same rule, of the parsed
\* replacement
C18_SameRootRule ==
    \A i \in 1..Len(replaced) :
        LET r == replaced[i]
        IN cycles[r.cycle].response.ok =>
              /\ r.container = RootByRule(r.before)
              /\ KidsAt(r.merged, r.container)
                    = Fresh(KidsAt(r.temp, RootByRule(r.temp)))

\* C3: at most one update cycle is between the start of its Fetch and the
\* dispatch of its hmr:updated event
C3_OneCycleInFlight == Cardinality(InFlight) <= 1

\* C4: a cycle whose fetch was rejected or answered with a non-OK status has
\* performed no Replace, and the hmr:updated events it has dispatched carry
\* success:false
C4_FailedFetchLeavesPage ==
    \A c \in 1..Len(cycles) :
        (cycles[c].response # NoResponse /\ ~cycles[c].response.ok) =>
            /\ ~Has(stepLog[c], "mergeContent")
            /\ \A i \in EventsOf(c) : ~events[i].success

\* C5: a finished cycle in which the Replace step or a Restore step threw has
\* attempted every Restore step
C5_RestoreAttemptedAfterThrow ==
    \A c \in 1..Len(cycles) :
        (Done(c) /\ \E s \in RestoreSteps \cup {"mergeContent"} : ThrewIn(stepLog[c], s))
        => \A s \in RestoreSteps : Has(stepLog[c], s)

\* the phase of the update cycle a logged step belongs to
Phase(step) ==
    CASE step \in {"fetch", "text"} -> 1
      [] step \in CaptureSteps -> 2
      [] step \in {"getRootContainer", "mergeContent"} -> 3
      [] step \in RestoreSteps -> 4
      [] step \in {"processScripts", "processStyles"} -> 5
      [] step \in {"initializeState", "initializeComponents"} -> 6
      [] step \in {"handleUpdateError", "dispatchUpdateEvent"} -> 7

\* C8: the steps of every cycle are logged in the order Fetch, Capture, Replace,
\* Restore, Reinitialize, completion event; a cycle that has replaced the
\* content has taken all three captures before, and a cycle that reports
\* success has gone through every phase
C8_StepOrder ==
    \A c \in 1..Len(cycles) :
        LET log == stepLog[c]
        IN /\ log[1] = "fetch"
           /\ \A i, j \in 1..Len(log) : i < j => Phase(log[i]) <= Phase(log[j])
           /\ Has(log, "mergeContent") => \A s \in CaptureSteps : Has(log, s)
           /\ Done(c) => log[Len(log)] = "dispatchUpdateEvent"
           /\ (\E i \in EventsOf(c) : events[i].success) =>
                 \A s \in Range(ProcessUpdateSteps) : Has(log, s)

\* C8 witness: a cycle has finished with success, and so has run every step
C8_Witness ==
    \E c \in 1..Len(cycles) :
        /\ Done(c)
        /\ \E i \in EventsOf(c) : events[i].success
        /\ Has(stepLog[c], "mergeContent")

\* the notifications no other notification follows within the debounce delay
EndsBurst(j) ==
    j = Len(notifications) \/ notifications[j + 1] >= notifications[j] + DebounceMs
\* ... and none can follow any more
EndedBurst(j) ==
    /\ clock > notifications[j] + DebounceMs
    /\ j < Len(notifications) => notifications[j + 1] > notifications[j] + DebounceMs
StartsAt(time) == {c \in 1..Len(cycles) : cycles[c].startedAt = time}

OneEventPerCycle ==
    \A c \in 1..Len(cycles) :
        Cardinality(EventsOf(c)) = (IF Done(c) THEN 1 ELSE 0)

====
